---------------------------- MODULE Spec2Model ----------------------------
(***************************************************************************)
(* A model of quest-dev's device session orchestration: the port           *)
(* forwarding manager (src/src/utils/adb.ts), the screenshot capture and   *)
(* verification engine (src/src/commands/screenshot.ts), the stay-awake    *)
(* session with its watchdog (src/src/commands/stay-awake.ts), the `open`  *)
(* command (src/src/commands/open.ts), the `battery` command               *)
(* (src/src/commands/battery.ts) and the bridge executor                   *)
(* (src/utils/exec.ts).                                                    *)
(*                                                                         *)
(* Text that the code matches with String.includes is modelled as a        *)
(* sequence of characters/tokens and matched with a real substring test.   *)
(***************************************************************************)
EXTENDS Integers, Sequences, FiniteSets, TLC

VARIABLES
    \* ---- device / host state seen by `open` ----
    reverseRules,   \* set of <<devicePort, hostPort>>: `adb reverse --list`
    forwardRules,   \* set of <<hostPort, socketId>>: `adb forward --list`
    browserPid,     \* pid of the browser's main process, 0 when not running
    unixSockets,    \* socket ids present in /proc/net/unix (0 generic, n = _n)
    foreignListen,  \* host ports a foreign process listens on
    lastRevCreated, \* history: port whose reverse rule the tool created last,
                    \* 0 once the reverse table was changed by anyone else
    \* ---- one forwarding setup (ensurePortForwarding / ensureCDPForwarding) ----
    opc,            \* position in the function
    oport,          \* the port argument, NoPort for ensureCDPForwarding
    cdpPid,         \* result of getBrowserPID (0 = null)
    cdpSocket,      \* result of detectCDPSocket (socket id)
    cdpPort,        \* result of getCDPPortForSocket
    listBinds,      \* history: a rule of the live reverse list bound oport
                    \* when it was listed ("none" before the listing)
    probeOutcome,   \* history: outcome of the connect probe, "none" before it
    ocalls,         \* history: bridge calls and reports of this invocation,
                    \* each [op, arg]
    oexit,          \* "none" while running, "ok", or the reason of exit(1)
    secondRun       \* history: the reverse list this invocation read is the
                    \* one its predecessor left after creating the rule for oport

fwdVars == <<reverseRules, forwardRules, browserPid, unixSockets, foreignListen,
             lastRevCreated, opc, oport, cdpPid, cdpSocket,
             cdpPort, listBinds, probeOutcome, ocalls, oexit, secondRun>>

\* the capture engine (screenshot.ts); declared below
VARIABLES
    files,          \* the device's screenshot directory in `ls -t` order
                    \* (newest first): [name, jpg, written]
    nextName,       \* the next fresh file name
    spc,            \* position in screenshotCommand
    existingScreenshot, \* the pre-trigger snapshot, 0 is null
    attempt,        \* the poll loop's i
    newScreenshot,  \* the new .jpg of the current tick awaiting verification,
                    \* 0 outside that
    filename,       \* the verified file, 0 is null
    sexit,          \* "none" while running, "ok", or the reason of exit(1)
    ticks,          \* history: poll listings done
    verifiedAt,     \* history: ticks at which a new file verified
    nTrigger, nPull, nDelete, \* history: calls issued
    failedOnce,     \* history: at some tick a new file failed the
                    \* end-marker check
    pulled,         \* history: the remote file a pull copied to the local
                    \* path, 0 when none
    deleted,        \* history: the remote file `rm` was issued for, 0 when none
    firstNew,       \* history kept by SpecCapture: the next fresh file name
                    \* when the capture was triggered (files with smaller
                    \* names are older), 0 before that
    steps           \* history: the checks passed, the pre-trigger listing
                    \* and the capture action, in the order they happened

histVars == <<failedOnce, pulled, deleted, firstNew>>

shotVars == <<files, nextName, spc, existingScreenshot, attempt, newScreenshot,
              filename, sexit, ticks, verifiedAt, nTrigger, nPull, nDelete,
              histVars, steps>>

\* isJpegComplete applied to one file (screenshot.ts 54-79)
VARIABLES
    jcontent,       \* the bytes of the remote file
    joutcome,       \* what the `adb exec-out tail -c 2` child did
    jresult         \* "none" before the call, then TRUE or FALSE

jpegVars == <<jcontent, joutcome, jresult>>

\* stay-awake sessions (stay-awake.ts): parents are named by their pids
VARIABLES
    pidFile,        \* ~/.quest-dev-stay-awake.pid: the pid it records, 0 absent
    timeout,        \* the device's screen_off_timeout
    prox,           \* the device's proximity automation: "auto" or "closed"
    ppc,            \* position of each parent in stayAwakeCommand
    origT,          \* each parent's originalTimeout, 0 before it is read
    cleanupInProgress, \* each parent's guard flag
    pexit,          \* why each parent exited, "none" while it has not
    wpc,            \* position of each parent's watchdog child
    checked,        \* history: what the PID-file check found
    touched,        \* history: the parent has read or changed the device,
                    \* written or removed the PID file, or spawned a child
    bodyRuns,       \* history: executions of each parent's cleanup body
    wdid,           \* history: what each watchdog's restoration did
    armed,          \* each parent's idle timers that are armed
    resets          \* each parent's calls of resetIdleTimer so far

timerVars == <<armed, resets>>

awakeVars == <<pidFile, timeout, prox, ppc, origT, cleanupInProgress, pexit,
               wpc, checked, touched, bodyRuns, wdid, timerVars>>

\* one `open <url>` command (open.ts)
VARIABLES
    url,            \* the url argument as `new URL` parses it
    tpc,            \* position in openCommand / tryNavigateExistingTab
    retryCount,     \* checkADBDevices: its retryCount argument
    ndev,           \* checkADBDevices: devices.length, -1 before the listing
    dcalls,         \* checkADBDevices: the adb commands it ran, in order
    tabsResult,     \* how the peer's `tabs` query ended, "none" before it
    tabs,           \* tryNavigateExistingTab: the parsed tabs
    reloadResult,   \* how the peer's reload ended, "none" before it
    navigated,      \* what tryNavigateExistingTab returned, "none" before
    launched,       \* what launchBrowser returned, "none" before
    tcalls,         \* history: peer and launch commands issued, in order
    texit           \* how the command ended, "none" while it runs

openVars == <<url, tpc, retryCount, ndev, dcalls, tabsResult, tabs, reloadResult,
              navigated, launched, tcalls, texit>>

\* one `battery` command (battery.ts)
VARIABLES
    bpc,            \* position in batteryCommand
    bdump,          \* what `adb shell dumpsys battery` gave, NoDump before
    bprinted,       \* the status line printed, "none" before
    bexit           \* how the command ended, "none" while it runs

batVars == <<bpc, bdump, bprinted, bexit>>

\* one call of the bridge executor (exec.ts)
VARIABLES
    xfn,            \* the function called: "execCommand" or "execCommandFull"
    xpc,            \* "idle", "running" (child spawned), "errored", "closed"
    xstdout,        \* the `stdout` accumulator
    xstderr,        \* the `stderr` accumulator
    xpromise,       \* the returned promise: pending, resolved or rejected
    xsettledBy      \* history: the child event that settled the promise

execVars == <<xfn, xpc, xstdout, xstderr, xpromise, xsettledBy>>

\* generateScreenshotFilename applied to one Date (filename.ts)
VARIABLES
    fdate,          \* the Date argument
    fname           \* the file name returned, <<>> before the call

nameVars == <<fdate, fname>>

vars == <<fwdVars, shotVars, jpegVars, awakeVars, openVars, batVars, execVars,
          nameVars>>

nonFwdVars ==
    <<shotVars, jpegVars, awakeVars, openVars, batVars, execVars, nameVars>>
nonShotVars ==
    <<fwdVars, jpegVars, awakeVars, openVars, batVars, execVars, nameVars>>
nonJpegVars ==
    <<fwdVars, shotVars, awakeVars, openVars, batVars, execVars, nameVars>>
nonAwakeVars ==
    <<fwdVars, shotVars, jpegVars, openVars, batVars, execVars, nameVars>>
nonOpenVars ==
    <<fwdVars, shotVars, jpegVars, awakeVars, batVars, execVars, nameVars>>
nonBatVars ==
    <<fwdVars, shotVars, jpegVars, awakeVars, openVars, execVars, nameVars>>
nonNameVars ==
    <<fwdVars, shotVars, jpegVars, awakeVars, openVars, batVars, execVars>>
nonExecVars ==
    <<fwdVars, shotVars, jpegVars, awakeVars, openVars, batVars, nameVars>>

-----------------------------------------------------------------------------
(* Bounds of the model *)

\* largest number of rules in the reverse table
MaxReverseRules == 2

\* most bytes in a file given to isJpegComplete
MaxFileLen == 3
\* most files the screenshot directory holds at a time
MaxFiles == 2
\* most files ever created in the screenshot directory
MaxNames == 3

\* most stay-awake invocations in a run
MaxProcs == 2

\* most lines the peer's `tabs` query prints
MaxTabLines == 2
\* most devices `adb devices` lists
MaxDevices == 2
\* most characters a child writes to each of its streams
MaxOutLen == 3
\* most calls of resetIdleTimer in one session
MaxResets == 4

(* Program constants *)

\* stayAwakeCommand: longTimeout, 24 hours
longTimeout == 86400000

\* getBatteryStatus: the current above which charging is "fast"
FastCurrent == 2000000
\* the device's screen_off_timeout before any session
DeviceTimeout == 30000

\* screenshotCommand: maxAttempts
maxAttempts == 20

\* getCDPPortForSocket: the generic socket's port
GenericCdpPort == 9223
\* getCDPPortForSocket: the port of a PID-scoped socket
PidCdpPort == 9222

NoPort == 0
GenericSocket == 0

\* ports the reverse table and the `open` URL range over
Ports == {80, 443, 8080}
\* pids the browser's main process may have
BrowserPids == {12, 123}
CdpPorts == {PidCdpPort, GenericCdpPort}
SocketIds == {GenericSocket} \cup BrowserPids

-----------------------------------------------------------------------------
(* Text: decimal rendering and String.prototype.includes *)

DigitChar == <<"0", "1", "2", "3", "4", "5", "6", "7", "8", "9">>

RECURSIVE Digits(_)
Digits(n) ==
    IF n < 10 THEN <<DigitChar[n + 1]>>
    ELSE Digits(n \div 10) \o <<DigitChar[(n % 10) + 1]>>

Includes(hay, needle) ==
    \E i \in 0..(Len(hay) - Len(needle)) :
        SubSeq(hay, i + 1, i + Len(needle)) = needle

RECURSIVE SetToSeq(_)
SetToSeq(S) ==
    IF S = {} THEN <<>>
    ELSE LET x == CHOOSE y \in S : TRUE
         IN  <<x>> \o SetToSeq(S \ {x})

RECURSIVE Concat(_)
Concat(ss) == IF ss = <<>> THEN <<>> ELSE Head(ss) \o Concat(Tail(ss))

TcpText(p) == <<"tcp:">> \o Digits(p)

SocketText(s) ==
    IF s = GenericSocket THEN <<"chrome_devtools_remote">>
    ELSE <<"chrome_devtools_remote", "_">> \o Digits(s)

\* one line of `adb reverse --list`
ReverseLine(r) ==
    <<"(reverse)", " ">> \o TcpText(r[1]) \o <<" ">> \o TcpText(r[2]) \o <<"\n">>

\* one line of `adb forward --list`
ForwardLine(r) ==
    <<"serial", " ">> \o TcpText(r[1]) \o <<" ", "localabstract:">>
        \o SocketText(r[2]) \o <<"\n">>

\* one line of /proc/net/unix
UnixLine(s) == <<"@">> \o SocketText(s) \o <<"\n">>

ReverseListText == Concat([i \in 1..Cardinality(reverseRules) |->
                              ReverseLine(SetToSeq(reverseRules)[i])])
ForwardListText == Concat([i \in 1..Cardinality(forwardRules) |->
                              ForwardLine(SetToSeq(forwardRules)[i])])
UnixText == Concat([i \in 1..Cardinality(unixSockets) |->
                              UnixLine(SetToSeq(unixSockets)[i])])

-----------------------------------------------------------------------------
(* The forwarding manager: src/src/utils/adb.ts *)

\* A line of `ps | grep <package>`: the grep process itself or a process of
\* the package; pid is the parsed second column, -1 when parseInt gives NaN.
PsLine(isGrep, pid, nparts) == [grep |-> isGrep, pid |-> pid, nparts |-> nparts]

GrepLine == PsLine(TRUE, 7, 9)
MainLine(pid) == PsLine(FALSE, pid, 9)
\* a line of the package whose second column parseInt cannot read
NanLine == PsLine(FALSE, -1, 9)

\* what `adb shell "ps | grep <package>"` can print in the current state
PsOutputs ==
    IF browserPid = 0 THEN {<<>>, <<GrepLine>>}
    ELSE {<<>>, <<MainLine(browserPid)>>, <<GrepLine, MainLine(browserPid)>>,
          <<MainLine(browserPid), GrepLine>>, <<NanLine, MainLine(browserPid)>>}

\* getBrowserPID without `if (line.includes('grep')) continue`
RECURSIVE getBrowserPID_NoSkip(_)
getBrowserPID_NoSkip(lines) ==
    IF lines = <<>> THEN 0
    ELSE IF Head(lines).nparts >= 2 THEN Head(lines).pid
    ELSE getBrowserPID_NoSkip(Tail(lines))

\* getBrowserPID: the pid of the first line that is not grep's; 0 is null
RECURSIVE getBrowserPID(_)
getBrowserPID(lines) ==
    IF lines = <<>> THEN 0
    ELSE IF Head(lines).grep THEN getBrowserPID(Tail(lines))
    ELSE IF Head(lines).nparts >= 2 THEN Head(lines).pid
    ELSE getBrowserPID(Tail(lines))

\* detectCDPSocket, after getBrowserPID gave a truthy pid: unixOut is the
\* stdout of `cat /proc/net/unix | grep chrome_devtools_remote_<pid>`
detectCDPSocket(pid, unixOut) ==
    IF Includes(unixOut, SocketText(pid)) THEN pid ELSE GenericSocket

getCDPPortForSocket(socket) ==
    IF socket = GenericSocket THEN GenericCdpPort ELSE PidCdpPort

\* getCDPPort (adb.ts 265-268): the value its promise resolves to when the
\* process listing prints psOut and the socket listing prints unixOut
getCDPPort(psOut, unixOut) ==
    LET pid == getBrowserPID(psOut)
    IN  getCDPPortForSocket(IF pid > 0 THEN detectCDPSocket(pid, unixOut)
                            ELSE GenericSocket)

\* the needle written without its colon
reverseExists_NoColon(listText, port) == Includes(listText, <<"tcp">> \o Digits(port))

\* `reverseList.includes(`tcp:${port}`)`
reverseExists(listText, port) == Includes(listText, TcpText(port))

\* a setup that creates the forward rule without looking at the list
forwardExists_Never(listText, port, socket) == FALSE

\* `forwardList.includes(`tcp:${cdpPort}`) && forwardList.includes(cdpSocket)`
forwardExists(listText, port, socket) ==
    Includes(listText, TcpText(port)) /\ Includes(listText, SocketText(socket))

\* The host port accepts a TCP connection: a foreign listener, or the bridge
\* server itself, which listens on the host port of every forward rule.
PortAccepts(port) ==
    port \in foreignListen \/ \E r \in forwardRules : r[1] = port

\* isPortListening: the outcomes of the connect probe
ProbeOutcomes(port) ==
    IF PortAccepts(port) THEN {"connect"} ELSE {"error", "timeout"}

\* the connect and error handlers swapped
isPortListening_Swapped(outcome) == outcome # "connect"

isPortListening(outcome) == outcome = "connect"

E(op, arg) == [op |-> op, arg |-> arg]

Log(op, arg) == ocalls' = Append(ocalls, E(op, arg))

Log2(op1, op2, arg) == ocalls' = ocalls \o <<E(op1, arg), E(op2, arg)>>

\* process.exit(1) of the forwarding setup
OExit(reason) == /\ opc' = "done"
                 /\ oexit' = reason

AfterDetect(p) == IF p = NoPort THEN "fwdList" ELSE "revList"

\* openCommand calls ensurePortForwarding(port) for a loopback URL and
\* ensureCDPForwarding() otherwise
StartEnsure(p) ==
    /\ opc \in {"idle", "done"}
    /\ opc' = "ps"
    /\ oport' = p
    /\ cdpPid' = 0
    /\ cdpSocket' = GenericSocket
    /\ cdpPort' = GenericCdpPort
    /\ listBinds' = "none"
    /\ probeOutcome' = "none"
    /\ ocalls' = <<>>
    /\ oexit' = "none"
    /\ secondRun' = FALSE
    /\ UNCHANGED <<reverseRules, forwardRules, browserPid, unixSockets,
                   foreignListen, lastRevCreated>>
    /\ UNCHANGED nonFwdVars

\* detectCDPSocket, first half: getBrowserPID (execCommandFull never throws)
GetBrowserPID ==
    /\ opc = "ps"
    /\ \E out \in PsOutputs :
        LET pid == getBrowserPID(out)
        IN  /\ cdpPid' = pid
            /\ Log("ps", 0)
            \* `if (pid)`: 0 and NaN are falsy
            /\ IF pid > 0
               THEN opc' = "unix" /\ UNCHANGED <<cdpSocket, cdpPort>>
               ELSE /\ opc' = AfterDetect(oport)
                    /\ cdpSocket' = GenericSocket
                    /\ cdpPort' = getCDPPortForSocket(GenericSocket)
    /\ UNCHANGED <<reverseRules, forwardRules, browserPid, unixSockets,
                   foreignListen, lastRevCreated, oport, listBinds, probeOutcome,
                   oexit, secondRun>>
    /\ UNCHANGED nonFwdVars

\* detectCDPSocket, second half: look for the PID-scoped socket; a listing
\* command that fails prints nothing
DetectSocket ==
    /\ opc = "unix"
    /\ \E ok \in BOOLEAN :
        LET sock == detectCDPSocket(cdpPid, IF ok THEN UnixText ELSE <<>>)
        IN  /\ cdpSocket' = sock
            /\ cdpPort' = getCDPPortForSocket(sock)
            /\ Log(IF ok THEN "unix" ELSE "unix-failed", cdpPid)
    /\ opc' = AfterDetect(oport)
    /\ UNCHANGED <<reverseRules, forwardRules, browserPid, unixSockets,
                   foreignListen, lastRevCreated, oport, cdpPid, listBinds,
                   probeOutcome, oexit, secondRun>>
    /\ UNCHANGED nonFwdVars

\* a rule of the reverse table has P as its device or host port
Binds(rules, p) == \E r \in rules : r[1] = p \/ r[2] = p

\* `adb reverse --list`, then reverseExists (adb.ts 185-189)
ReverseList ==
    /\ opc = "revList"
    /\ \E ok \in BOOLEAN :
        IF ~ok
        THEN /\ OExit("setupFailed")
             /\ Log("reverse-list", oport)
             /\ UNCHANGED <<listBinds, secondRun>>
        ELSE /\ listBinds' = IF Binds(reverseRules, oport) THEN "yes" ELSE "no"
             /\ secondRun' = (oport = lastRevCreated)
             /\ oexit' = oexit
             /\ IF reverseExists(ReverseListText, oport)
                THEN /\ Log2("reverse-list", "log:reverse-already", oport)
                     /\ opc' = "fwdList"
                ELSE /\ Log("reverse-list", oport)
                     /\ opc' = "revCreate"
    /\ UNCHANGED <<reverseRules, forwardRules, browserPid, unixSockets,
                   foreignListen, lastRevCreated, oport, cdpPid, cdpSocket,
                   cdpPort, probeOutcome>>
    /\ UNCHANGED nonFwdVars

\* `adb reverse tcp:P tcp:P` (adb.ts 191-192); the bridge rebinds the device port
ReverseCreate ==
    /\ opc = "revCreate"
    /\ \E ok \in BOOLEAN :
        IF ~ok
        THEN /\ OExit("setupFailed")
             /\ Log("reverse-create", oport)
             /\ UNCHANGED <<reverseRules, lastRevCreated>>
        ELSE /\ reverseRules' = {r \in reverseRules : r[1] # oport}
                                    \cup {<<oport, oport>>}
             /\ lastRevCreated' = oport
             /\ Log2("reverse-create", "log:reverse-setup", oport)
             /\ opc' = "fwdList"
             /\ oexit' = oexit
    /\ UNCHANGED <<forwardRules, browserPid, unixSockets, foreignListen, oport,
                   cdpPid, cdpSocket, cdpPort, listBinds, probeOutcome, secondRun>>
    /\ UNCHANGED nonFwdVars

\* `adb forward --list`, then forwardExists (adb.ts 197-201, 282-286)
ForwardList ==
    /\ opc = "fwdList"
    /\ \E ok \in BOOLEAN :
        IF ~ok
        THEN /\ OExit("setupFailed")
             /\ Log("forward-list", cdpPort)
        ELSE IF forwardExists(ForwardListText, cdpPort, cdpSocket)
             THEN /\ Log2("forward-list", "log:forward-already", cdpPort)
                  /\ opc' = "done"
                  /\ oexit' = "ok"
             ELSE /\ Log("forward-list", cdpPort)
                  /\ opc' = "probe"
                  /\ oexit' = oexit
    /\ UNCHANGED <<reverseRules, forwardRules, browserPid, unixSockets,
                   foreignListen, lastRevCreated, oport, cdpPid, cdpSocket,
                   cdpPort, listBinds, probeOutcome, secondRun>>
    /\ UNCHANGED nonFwdVars

\* isPortListening(cdpPort) and the hard stop (adb.ts 204-215, 289-300)
Probe ==
    /\ opc = "probe"
    /\ \E outcome \in ProbeOutcomes(cdpPort) :
        /\ probeOutcome' = outcome
        /\ IF isPortListening(outcome)
           THEN /\ OExit("portConflict")
                /\ Log2("probe", "err:port-in-use", cdpPort)
           ELSE /\ opc' = "fwdCreate"
                /\ oexit' = oexit
                /\ Log("probe", cdpPort)
    /\ UNCHANGED <<reverseRules, forwardRules, browserPid, unixSockets,
                   foreignListen, lastRevCreated, oport, cdpPid, cdpSocket,
                   cdpPort, listBinds, secondRun>>
    /\ UNCHANGED nonFwdVars

\* `adb forward tcp:<cdpPort> localabstract:<cdpSocket>` (adb.ts 217-218);
\* the bridge cannot bind a host port a foreign process holds
ForwardCreate ==
    /\ opc = "fwdCreate"
    /\ \E ok \in BOOLEAN :
        IF ~ok \/ cdpPort \in foreignListen
        THEN /\ OExit("setupFailed")
             /\ Log("forward-create", cdpPort)
             /\ UNCHANGED forwardRules
        ELSE /\ forwardRules' = {r \in forwardRules : r[1] # cdpPort}
                                    \cup {<<cdpPort, cdpSocket>>}
             /\ Log2("forward-create", "log:forward-setup", cdpPort)
             /\ opc' = "done"
             /\ oexit' = "ok"
    /\ UNCHANGED <<reverseRules, browserPid, unixSockets, foreignListen,
                   lastRevCreated, oport, cdpPid, cdpSocket, cdpPort, listBinds,
                   probeOutcome, secondRun>>
    /\ UNCHANGED nonFwdVars

invVars == <<opc, oport, cdpPid, cdpSocket, cdpPort, listBinds, probeOutcome,
             ocalls, oexit, secondRun>>

(* The environment of `open`: the browser, other tools, foreign listeners *)

\* the browser starts; while warm-starting it listens on the PID-scoped socket
BrowserStart(pid) ==
    /\ browserPid = 0
    /\ browserPid' = pid
    /\ unixSockets' = {pid}
    /\ UNCHANGED <<reverseRules, forwardRules, foreignListen, lastRevCreated,
                   invVars>>
    /\ UNCHANGED nonFwdVars

\* once settled the browser listens on the generic socket
BrowserSettle ==
    /\ browserPid # 0
    /\ unixSockets = {browserPid}
    /\ unixSockets' = {GenericSocket}
    /\ UNCHANGED <<reverseRules, forwardRules, browserPid, foreignListen,
                   lastRevCreated, invVars>>
    /\ UNCHANGED nonFwdVars

BrowserStop ==
    /\ browserPid # 0
    /\ browserPid' = 0
    /\ unixSockets' = {}
    /\ UNCHANGED <<reverseRules, forwardRules, foreignListen, lastRevCreated,
                   invVars>>
    /\ UNCHANGED nonFwdVars

\* another tool (or the user) adds a reverse rule
ReverseAdd(p) ==
    /\ Cardinality(reverseRules) < MaxReverseRules
    /\ \A r \in reverseRules : r[1] # p
    /\ reverseRules' = reverseRules \cup {<<p, p>>}
    /\ lastRevCreated' = 0
    /\ UNCHANGED <<forwardRules, browserPid, unixSockets, foreignListen, invVars>>
    /\ UNCHANGED nonFwdVars

\* `adb reverse --remove-all` by the user
ReverseRemoveAll ==
    /\ reverseRules # {}
    /\ reverseRules' = {}
    /\ lastRevCreated' = 0
    /\ UNCHANGED <<forwardRules, browserPid, unixSockets, foreignListen, invVars>>
    /\ UNCHANGED nonFwdVars

\* `adb forward --remove-all` by the user
ForwardRemoveAll ==
    /\ forwardRules # {}
    /\ forwardRules' = {}
    /\ UNCHANGED <<reverseRules, browserPid, unixSockets, foreignListen,
                   lastRevCreated, invVars>>
    /\ UNCHANGED nonFwdVars

\* a foreign process starts listening on a CDP port that is free
ForeignStart(port) ==
    /\ ~PortAccepts(port)
    /\ foreignListen' = foreignListen \cup {port}
    /\ UNCHANGED <<reverseRules, forwardRules, browserPid, unixSockets,
                   lastRevCreated, invVars>>
    /\ UNCHANGED nonFwdVars

FwdInit ==
    /\ reverseRules = {}
    /\ forwardRules = {}
    /\ browserPid = 0
    /\ unixSockets = {}
    /\ foreignListen = {}
    /\ lastRevCreated = 0
    /\ opc = "idle"
    /\ oport = NoPort
    /\ cdpPid = 0
    /\ cdpSocket = GenericSocket
    /\ cdpPort = GenericCdpPort
    /\ listBinds = "none"
    /\ probeOutcome = "none"
    /\ ocalls = <<>>
    /\ oexit = "none"
    /\ secondRun = FALSE


-----------------------------------------------------------------------------
(* The capture engine: src/src/commands/screenshot.ts *)

Bytes == {0, 216, 217, 255}

\* a JPEG as the capture service writes it: SOI, data, EOI
FullImage == <<255, 216, 0, 255, 217>>

SeqsUpTo(S, n) == UNION {[1..k -> S] : k \in 0..n}

\* `tail -c 2`: the last two bytes, or the whole of a shorter file
TailC2(content) ==
    IF Len(content) <= 2 THEN content
    ELSE SubSeq(content, Len(content) - 1, Len(content))

Outcome(kind, code, stdout) == [kind |-> kind, code |-> code, stdout |-> stdout]

\* what the child `adb exec-out tail -c 2 <remotePath>` can do: fail to spawn
\* ('error'), or close with an exit code after writing to stdout; a missing
\* file gives no bytes.
TailOutcomes(present, content) ==
    {Outcome("error", 1, <<>>)} \cup
    (IF present
     THEN {Outcome("close", c, TailC2(content)) : c \in {0, 1}}
     ELSE {Outcome("close", c, <<>>) : c \in {0, 1}})

\* the exit code ignored
isJpegComplete_NoCode(o) ==
    /\ o.kind = "close"
    /\ Len(o.stdout) >= 2 /\ o.stdout[1] = 255 /\ o.stdout[2] = 217

\* isJpegComplete: the promise's value (buffer[0], buffer[1] are stdout[1], [2])
isJpegComplete(o) ==
    IF o.kind = "error" THEN FALSE
    ELSE IF o.code # 0 THEN FALSE
    ELSE Len(o.stdout) >= 2 /\ o.stdout[1] = 255 /\ o.stdout[2] = 217

NoOutcome == Outcome("none", 0, <<>>)

JpegCheck ==
    /\ jresult = "none"
    /\ \E o \in TailOutcomes(TRUE, jcontent) :
        /\ joutcome' = o
        /\ jresult' = IF isJpegComplete(o) THEN "verified" ELSE "rejected"
    /\ UNCHANGED jcontent
    /\ UNCHANGED nonJpegVars

JpegIdle ==
    /\ jcontent = <<>>
    /\ joutcome = NoOutcome
    /\ jresult = "none"

JpegInit ==
    /\ jcontent \in SeqsUpTo(Bytes, MaxFileLen)
    /\ joutcome = NoOutcome
    /\ jresult = "none"

\* a file of the screenshot directory
File(name, jpg, written) == [name |-> name, jpg |-> jpg, written |-> written]

FileContent(f) == SubSeq(FullImage, 1, f.written)

\* the lines of `ls -t` that pass `line.trim() && line.endsWith('.jpg')`
RECURSIVE JpgNames(_)
JpgNames(fs) ==
    IF fs = <<>> THEN <<>>
    ELSE IF Head(fs).jpg THEN <<Head(fs).name>> \o JpgNames(Tail(fs))
    ELSE JpgNames(Tail(fs))

\* getMostRecentScreenshot: null (0) when the listing fails or has no .jpg
getMostRecentScreenshot(ok, fs) ==
    IF ~ok THEN 0
    ELSE IF JpgNames(fs) = <<>> THEN 0
    ELSE JpgNames(fs)[1]

Present(name) == \E i \in DOMAIN files : files[i].name = name

FileNamed(name) == files[CHOOSE i \in DOMAIN files : files[i].name = name]

Without(fs, name) == SelectSeq(fs, LAMBDA f : f.name # name)

\* the loop condition written with <=
LoopContinues_OffByOne(i) == i <= maxAttempts

\* `i < maxAttempts`
LoopContinues(i) == i < maxAttempts

SExit(reason) == /\ spc' = "done"
                 /\ sexit' = reason

\* a step is recorded with what it found
Step(name, saw) == steps' = Append(steps, [step |-> name, saw |-> saw])

ShotStart ==
    /\ spc = "idle"
    /\ spc' = "checkPath"
    /\ UNCHANGED <<files, nextName, existingScreenshot, attempt, newScreenshot,
                   filename, sexit, ticks, verifiedAt, nTrigger, nPull, nDelete>>
    /\ UNCHANGED histVars
    /\ UNCHANGED steps
    /\ UNCHANGED nonShotVars

\* what each prerequisite check can find
PathReports == {"found", "missing"}
DeviceReports == {"attached", "none", "listing failed"}
\* `adb shell ls /sdcard/`: it lists, it prints `Permission denied`, or it
\* exits nonzero
UsbReports == {"listed", "Permission denied", "ls failed"}
\* `adb shell dumpsys power`: the wakefulness it prints, or nothing when
\* the command fails
WakeReports == {"mWakefulness=Awake", "mWakefulness=Asleep", "dumpsys failed"}

\* checkUSBFileTransfer (adb.ts 315-331): `result.code !== 0 ||
\* result.stdout.includes('Permission denied') || ...stderr...`
UsbUnauthorized(saw) == saw \in {"ls failed", "Permission denied"}

\* a check of the display that lets every report pass
Asleep_Never(saw) == FALSE

\* checkQuestAwake (adb.ts 336-346):
\* `result.stdout.includes('mWakefulness=Asleep')`
Asleep(saw) == saw = "mWakefulness=Asleep"

\* checkADBPath (screenshot.ts 118)
CheckPath ==
    /\ spc = "checkPath"
    /\ \E saw \in PathReports :
        /\ Step("path", saw)
        /\ IF saw = "found" THEN spc' = "checkDevices" /\ UNCHANGED sexit
           ELSE SExit("noAdb")
    /\ UNCHANGED <<files, nextName, existingScreenshot, attempt, newScreenshot,
                   filename, ticks, verifiedAt, nTrigger, nPull, nDelete>>
    /\ UNCHANGED histVars
    /\ UNCHANGED nonShotVars

\* checkADBDevices (screenshot.ts 119)
CheckDevices ==
    /\ spc = "checkDevices"
    /\ \E saw \in DeviceReports :
        /\ Step("devices", saw)
        /\ IF saw = "attached" THEN spc' = "checkUsb" /\ UNCHANGED sexit
           ELSE SExit("noDevice")
    /\ UNCHANGED <<files, nextName, existingScreenshot, attempt, newScreenshot,
                   filename, ticks, verifiedAt, nTrigger, nPull, nDelete>>
    /\ UNCHANGED histVars
    /\ UNCHANGED nonShotVars

\* checkUSBFileTransfer (screenshot.ts 120)
CheckUsb ==
    /\ spc = "checkUsb"
    /\ \E saw \in UsbReports :
        /\ Step("usb", saw)
        /\ IF UsbUnauthorized(saw) THEN SExit("usbUnauthorized")
           ELSE spc' = "checkAwake" /\ UNCHANGED sexit
    /\ UNCHANGED <<files, nextName, existingScreenshot, attempt, newScreenshot,
                   filename, ticks, verifiedAt, nTrigger, nPull, nDelete>>
    /\ UNCHANGED histVars
    /\ UNCHANGED nonShotVars

\* checkQuestAwake (screenshot.ts 121)
CheckAwake ==
    /\ spc = "checkAwake"
    /\ \E saw \in WakeReports :
        /\ Step("awake", saw)
        /\ IF Asleep(saw) THEN SExit("asleep")
           ELSE spc' = "snapshot" /\ UNCHANGED sexit
    /\ UNCHANGED <<files, nextName, existingScreenshot, attempt, newScreenshot,
                   filename, ticks, verifiedAt, nTrigger, nPull, nDelete>>
    /\ UNCHANGED histVars
    /\ UNCHANGED nonShotVars

\* existingScreenshot = await getMostRecentScreenshot() (screenshot.ts 124)
Snapshot ==
    /\ spc = "snapshot"
    /\ \E ok \in BOOLEAN :
        existingScreenshot' = getMostRecentScreenshot(ok, files)
    /\ spc' = "trigger"
    /\ Step("list", "")
    /\ UNCHANGED <<files, nextName, attempt, newScreenshot, filename, sexit,
                   ticks, verifiedAt, nTrigger, nPull, nDelete>>
    /\ UNCHANGED histVars
    /\ UNCHANGED nonShotVars

\* a command that invokes the capture action again when it failed
TriggerFailed_Retry == spc' = "trigger" /\ UNCHANGED sexit

\* `if (!await triggerScreenshot()) process.exit(1)` (screenshot.ts 127-129)
TriggerFailed == SExit("triggerFailed")

\* triggerScreenshot (screenshot.ts 13-30) and the test of its result; note
\* says whether the history firstNew is kept
TriggerNoting(note) ==
    /\ spc = "trigger"
    /\ nTrigger' = nTrigger + 1
    /\ Step("trigger", "")
    /\ \E ok \in BOOLEAN :
        IF ok THEN spc' = "poll" /\ UNCHANGED sexit
        ELSE TriggerFailed
    /\ attempt' = 0
    /\ UNCHANGED <<files, nextName, existingScreenshot, newScreenshot, filename,
                   ticks, verifiedAt, nPull, nDelete>>
    /\ firstNew' = IF note THEN nextName ELSE 0
    /\ UNCHANGED <<failedOnce, pulled, deleted>>
    /\ UNCHANGED nonShotVars

Trigger == TriggerNoting(FALSE)

\* one poll tick up to the comparison (screenshot.ts 136-140)
PollList ==
    /\ spc = "poll"
    /\ LoopContinues(attempt)
    /\ ticks' = ticks + 1
    /\ \E ok \in BOOLEAN :
        LET new == getMostRecentScreenshot(ok, files)
        IN  IF new # 0 /\ new # existingScreenshot
            THEN /\ newScreenshot' = new
                 /\ spc' = "verify"
                 /\ UNCHANGED attempt
            ELSE /\ newScreenshot' = 0
                 /\ spc' = "poll"
                 /\ attempt' = attempt + 1
    /\ UNCHANGED <<files, nextName, existingScreenshot, filename, sexit,
                   verifiedAt, nTrigger, nPull, nDelete>>
    /\ UNCHANGED histVars
    /\ UNCHANGED steps
    /\ UNCHANGED nonShotVars

\* a loop that a failed verification ends
VerifyFailed_Final ==
    /\ attempt' = attempt
    /\ spc' = "afterLoop"
    /\ failedOnce' = TRUE
    /\ UNCHANGED <<filename, verifiedAt>>

\* `if (complete) {...}` has no else: the for loop goes to its next
\* iteration (screenshot.ts 143-149)
VerifyFailed ==
    /\ attempt' = attempt + 1
    /\ spc' = "poll"
    /\ failedOnce' = TRUE
    /\ UNCHANGED <<filename, verifiedAt>>

\* the rest of the tick: isJpegComplete(newScreenshot) (screenshot.ts 141-148)
PollVerify ==
    /\ spc = "verify"
    /\ \E o \in TailOutcomes(Present(newScreenshot),
                             IF Present(newScreenshot)
                             THEN FileContent(FileNamed(newScreenshot))
                             ELSE <<>>) :
        IF isJpegComplete(o)
        THEN /\ filename' = newScreenshot
             /\ verifiedAt' = verifiedAt \cup {ticks}
             /\ spc' = "afterLoop"
             /\ UNCHANGED <<attempt, failedOnce>>
        ELSE VerifyFailed
    \* newScreenshot is scoped to the iteration
    /\ newScreenshot' = 0
    /\ UNCHANGED <<pulled, deleted, firstNew>>
    /\ UNCHANGED <<files, nextName, existingScreenshot, sexit,
                   ticks, nTrigger, nPull, nDelete>>
    /\ UNCHANGED steps
    /\ UNCHANGED nonShotVars

\* the loop is left; `if (!filename)` (screenshot.ts 151-162)
CheckFilename ==
    /\ \/ spc = "afterLoop"
       \/ spc = "poll" /\ ~LoopContinues(attempt)
    /\ IF filename = 0 THEN SExit("timeout")
       ELSE spc' = "pull" /\ UNCHANGED sexit
    /\ UNCHANGED <<files, nextName, existingScreenshot, attempt, newScreenshot,
                   filename, ticks, verifiedAt, nTrigger, nPull, nDelete>>
    /\ UNCHANGED histVars
    /\ UNCHANGED steps
    /\ UNCHANGED nonShotVars

\* a command that goes on to the remote delete when the pull failed
PullFailed_GoOn == spc' = "delete" /\ UNCHANGED sexit

\* `if (!await pullScreenshot(filename, resolvedPath)) process.exit(1)`
PullFailed == SExit("pullFailed")

\* pullScreenshot (screenshot.ts 84-94, 165-167); a missing file cannot be
\* pulled
Pull ==
    /\ spc = "pull"
    /\ nPull' = nPull + 1
    /\ \E ok \in BOOLEAN :
        IF ok /\ Present(filename)
        THEN /\ Step("pull", "saved")
             /\ spc' = "delete" /\ pulled' = filename /\ UNCHANGED sexit
        ELSE /\ Step("pull", "failed")
             /\ PullFailed /\ UNCHANGED pulled
    /\ UNCHANGED <<failedOnce, deleted, firstNew>>
    /\ UNCHANGED <<files, nextName, existingScreenshot, attempt, newScreenshot,
                   filename, ticks, verifiedAt, nTrigger, nDelete>>
    /\ UNCHANGED nonShotVars

\* a command that ends with an error when the remote `rm` fails
DeleteFailed_Fatal == SExit("deleteFailed")

\* `if (result.code !== 0) console.warn(...)` (screenshot.ts 102-103): the
\* function returns and the command goes on to `Done!`
DeleteFailed == SExit("ok")

\* deleteRemoteScreenshot (screenshot.ts 99-107, 170-172); `rm` of a file
\* that is gone exits nonzero
Delete ==
    /\ spc = "delete"
    /\ nDelete' = nDelete + 1
    /\ deleted' = filename
    /\ \E ok \in BOOLEAN :
        IF ok /\ Present(filename)
        THEN /\ Step("rm", "removed")
             /\ files' = Without(files, filename)
             /\ SExit("ok")
        ELSE /\ Step("rm", "failed")
             /\ UNCHANGED files
             /\ DeleteFailed
    /\ UNCHANGED <<failedOnce, pulled, firstNew>>
    /\ UNCHANGED <<nextName, existingScreenshot, attempt, newScreenshot,
                   filename, ticks, verifiedAt, nTrigger, nPull>>
    /\ UNCHANGED nonShotVars

cmdVars == <<spc, existingScreenshot, attempt, newScreenshot, filename, sexit,
             ticks, verifiedAt, nTrigger, nPull, nDelete, histVars, steps>>

(* The device's screenshot directory *)

\* A file appears. The capture service writes one file at a time, so the
\* files below the newest are complete; a file that is no .jpg is not
\* followed as it grows.
NewFile(jpg) ==
    /\ Len(files) < MaxFiles
    /\ nextName <= MaxNames
    /\ IF files = <<>> THEN TRUE ELSE files[1].written = Len(FullImage)
    /\ files' = <<File(nextName, jpg, IF jpg THEN 0 ELSE Len(FullImage))>> \o files
    /\ nextName' = nextName + 1
    /\ UNCHANGED cmdVars
    /\ UNCHANGED nonShotVars

\* the file being written grows by a byte
WriteByte ==
    /\ files # <<>>
    /\ files[1].written < Len(FullImage)
    /\ files' = [files EXCEPT ![1].written = @ + 1]
    /\ UNCHANGED nextName
    /\ UNCHANGED cmdVars
    /\ UNCHANGED nonShotVars

\* a file is removed by someone else
RemoveFile(i) ==
    /\ i \in DOMAIN files
    /\ files' = Without(files, files[i].name)
    /\ UNCHANGED nextName
    /\ UNCHANGED cmdVars
    /\ UNCHANGED nonShotVars

ShotInit ==
    /\ files = <<>>
    /\ nextName = 1
    /\ spc = "idle"
    /\ existingScreenshot = 0
    /\ attempt = 0
    /\ newScreenshot = 0
    /\ filename = 0
    /\ sexit = "none"
    /\ ticks = 0
    /\ verifiedAt = {}
    /\ nTrigger = 0
    /\ nPull = 0
    /\ nDelete = 0
    /\ failedOnce = FALSE
    /\ pulled = 0
    /\ deleted = 0
    /\ firstNew = 0
    /\ steps = <<>>

-----------------------------------------------------------------------------
(* The stay-awake session and its watchdog: src/src/commands/stay-awake.ts *)

Pids == 1..MaxProcs

\* the pid of a session that died before the run and left its PID file
DeadPid == MaxProcs + 1

Alive(p) == ppc[p] \notin {"none", "exited", "killed"}

\* kill(pid, 0) never succeeds
ProcessExists_Never(pid) == FALSE

\* process.kill(pid, 0) does not throw
ProcessExists(pid) == pid \in Pids /\ Alive(pid)

\* what two consecutive bridge commands of a restoration can do
RestoreOutcomes == {"both", "firstFails", "secondFails"}

PExit(p, reason) ==
    /\ ppc' = [ppc EXCEPT ![p] = "exited"]
    /\ pexit' = [pexit EXCEPT ![p] = reason]

\* the process status each exit reports
ExitCode(reason) == IF reason = "clean" THEN 0 ELSE 1

\* the live check only warns and the start goes on
Refuse_Continue(p) ==
    /\ ppc' = [ppc EXCEPT ![p] = "getTimeout"]
    /\ UNCHANGED pexit

\* 'Stay-awake is already running', process.exit(1) (stay-awake.ts 117-119)
Refuse(p) == PExit(p, "alreadyRunning")

Touch(p) == touched' = [touched EXCEPT ![p] = TRUE]

\* cleanup returns to the event loop
CleanupEnd_NoExit == "running"

\* process.exit(0) at the end of cleanup
CleanupEnd == "exited"

\* a `quest-dev stay-awake` process starts; pids are handed out in order
AwakeStart(p) ==
    /\ ppc[p] = "none"
    /\ \A q \in Pids : q < p => ppc[q] # "none"
    /\ ppc' = [ppc EXCEPT ![p] = "prereq"]
    /\ UNCHANGED <<pidFile, timeout, prox, origT, cleanupInProgress, pexit, wpc,
                   checked, touched, bodyRuns, wdid>>
    /\ UNCHANGED timerVars
    /\ UNCHANGED nonAwakeVars

\* checkADBPath and `adb devices` (stay-awake.ts 92-108)
Prereq(p) ==
    /\ ppc[p] = "prereq"
    /\ \E ok \in BOOLEAN :
        IF ok THEN ppc' = [ppc EXCEPT ![p] = "pidCheck"] /\ UNCHANGED pexit
        ELSE PExit(p, "noDevice")
    /\ UNCHANGED <<pidFile, timeout, prox, origT, cleanupInProgress, wpc,
                   checked, touched, bodyRuns, wdid>>
    /\ UNCHANGED timerVars
    /\ UNCHANGED nonAwakeVars

\* the PID-file check (stay-awake.ts 113-124): existsSync, readFileSync,
\* process.kill(pid, 0) and unlinkSync run without yielding
PidCheck(p) ==
    /\ ppc[p] = "pidCheck"
    /\ IF pidFile = 0
       THEN /\ checked' = [checked EXCEPT ![p] = "absent"]
            /\ ppc' = [ppc EXCEPT ![p] = "getTimeout"]
            /\ UNCHANGED <<pidFile, pexit, touched>>
       ELSE IF ProcessExists(pidFile)
       THEN /\ checked' = [checked EXCEPT ![p] = "live"]
            /\ Refuse(p)
            /\ UNCHANGED <<pidFile, touched>>
       ELSE /\ checked' = [checked EXCEPT ![p] = "stale"]
            /\ pidFile' = 0
            /\ Touch(p)
            /\ ppc' = [ppc EXCEPT ![p] = "getTimeout"]
            /\ UNCHANGED pexit
    /\ UNCHANGED <<timeout, prox, origT, cleanupInProgress, wpc, bodyRuns, wdid>>
    /\ UNCHANGED timerVars
    /\ UNCHANGED nonAwakeVars

\* originalTimeout = await getScreenTimeout() (stay-awake.ts 126-135)
GetTimeout(p) ==
    /\ ppc[p] = "getTimeout"
    /\ Touch(p)
    /\ \E ok \in BOOLEAN :
        IF ok
        THEN /\ origT' = [origT EXCEPT ![p] = timeout]
             /\ ppc' = [ppc EXCEPT ![p] = "writePid"]
             /\ UNCHANGED pexit
        ELSE /\ PExit(p, "getFailed")
             /\ UNCHANGED origT
    /\ UNCHANGED <<pidFile, timeout, prox, cleanupInProgress, wpc, checked,
                   bodyRuns, wdid>>
    /\ UNCHANGED timerVars
    /\ UNCHANGED nonAwakeVars

\* a start that applies the settings before it spawns the watchdog
NextStep_SettingsFirst(pos) ==
    CASE pos = "writePid" -> "wakeProx"
      [] pos = "wakeProx" -> "setLong"
      [] pos = "setLong" -> "spawn"
      [] pos = "spawn" -> "running"

\* the order of stayAwakeCommand after the timeout was read (stay-awake.ts
\* 137-182): the PID file, the watchdog, the wake-up and the proximity
\* broadcast, the long timeout
NextStep(pos) ==
    CASE pos = "writePid" -> "spawn"
      [] pos = "spawn" -> "wakeProx"
      [] pos = "wakeProx" -> "setLong"
      [] pos = "setLong" -> "running"

\* fs.writeFileSync(pidFilePath, process.pid) (stay-awake.ts 137-142)
WritePid(p) ==
    /\ ppc[p] = "writePid"
    /\ \E ok \in BOOLEAN :
        IF ok THEN pidFile' = p /\ Touch(p)
        ELSE UNCHANGED <<pidFile, touched>>
    /\ ppc' = [ppc EXCEPT ![p] = NextStep("writePid")]
    /\ UNCHANGED <<timeout, prox, origT, cleanupInProgress, pexit, wpc, checked,
                   bodyRuns, wdid>>
    /\ UNCHANGED timerVars
    /\ UNCHANGED nonAwakeVars

\* spawn the detached watchdog (stay-awake.ts 144-160)
SpawnWith(p, oks) ==
    /\ ppc[p] = "spawn"
    /\ \E ok \in oks :
        IF ok THEN wpc' = [wpc EXCEPT ![p] = "polling"] /\ Touch(p)
        ELSE UNCHANGED <<wpc, touched>>
    /\ ppc' = [ppc EXCEPT ![p] = NextStep("spawn")]
    /\ UNCHANGED <<pidFile, timeout, prox, origT, cleanupInProgress, pexit,
                   checked, bodyRuns, wdid>>
    /\ UNCHANGED timerVars
    /\ UNCHANGED nonAwakeVars

Spawn(p) == SpawnWith(p, BOOLEAN)

\* wakeScreen, then disableProximitySensor; a failure is only reported
\* (stay-awake.ts 162-171)
WakeProx(p) ==
    /\ ppc[p] = "wakeProx"
    /\ \E o \in RestoreOutcomes :
        IF o = "both" THEN prox' = "closed" ELSE UNCHANGED prox
    /\ ppc' = [ppc EXCEPT ![p] = NextStep("wakeProx")]
    /\ UNCHANGED <<touched, pidFile, timeout, origT, cleanupInProgress, pexit, wpc,
                   checked, bodyRuns, wdid>>
    /\ UNCHANGED timerVars
    /\ UNCHANGED nonAwakeVars

\* clearTimeout(idleTimerHandle) on n armed timers: the handle names the
\* timer armed last, and clearing a timer that has fired does nothing
clearTimeout(n) == IF n > 0 THEN n - 1 ELSE 0

\* a reset that arms a timer without cancelling the one before
resetIdleTimer_NoClear(n) == n + 1

\* resetIdleTimer (stay-awake.ts 188-194): `if (idleTimerHandle)
\* clearTimeout(idleTimerHandle)`, then setTimeout(..., idleTimeout)
resetIdleTimer(n) == clearTimeout(n) + 1

ResetIdleTimer(p) ==
    /\ armed' = [armed EXCEPT ![p] = resetIdleTimer(@)]
    /\ resets' = [resets EXCEPT ![p] = @ + 1]

\* setScreenTimeout(longTimeout); then the handlers and the idle timer are
\* installed (stay-awake.ts 173-241)
SetLong(p) ==
    /\ ppc[p] = "setLong"
    /\ \E ok \in BOOLEAN :
        IF ok
        THEN /\ timeout' = longTimeout
             /\ Touch(p)
             /\ ppc' = [ppc EXCEPT ![p] = NextStep("setLong")]
             /\ ResetIdleTimer(p)
             /\ UNCHANGED pexit
        ELSE /\ PExit(p, "setFailed")
             /\ UNCHANGED <<timeout, touched, timerVars>>
    /\ UNCHANGED <<pidFile, prox, origT, cleanupInProgress, wpc, checked,
                   bodyRuns, wdid>>
    /\ UNCHANGED nonAwakeVars

\* cleanup() up to the PID file's removal (stay-awake.ts 197-216): the guard,
\* the idle timer cleared, the watchdog killed, the PID file unlinked
Cleanup(p, n) ==
    IF cleanupInProgress[p]
    THEN UNCHANGED awakeVars
    ELSE /\ cleanupInProgress' = [cleanupInProgress EXCEPT ![p] = TRUE]
         /\ bodyRuns' = [bodyRuns EXCEPT ![p] = @ + 1]
         /\ armed' = [armed EXCEPT ![p] = clearTimeout(n)]
         /\ UNCHANGED resets
         /\ wpc' = [wpc EXCEPT ![p] = "none"]
         /\ pidFile' = 0
         /\ ppc' = [ppc EXCEPT ![p] = "cleanup"]
         /\ UNCHANGED <<timeout, prox, origT, pexit, checked, touched,
                        wdid>>

\* SIGINT, SIGTERM or SIGHUP reaches a parent whose handlers are installed
\* (stay-awake.ts 230-232); one that arrives while cleanup's execSync calls
\* block the event loop stays queued until process.exit drops it
Signal(p, sig) ==
    /\ ppc[p] \in {"running", "cleanup"}
    /\ IF ppc[p] = "running" THEN Cleanup(p, armed[p]) ELSE UNCHANGED awakeVars
    /\ UNCHANGED nonAwakeVars

\* an idle timer fires and calls cleanup() (stay-awake.ts 190-193); the
\* timer that fired is no longer armed
IdleFire(p) ==
    /\ ppc[p] = "running"
    /\ armed[p] > 0
    /\ Cleanup(p, armed[p] - 1)
    /\ UNCHANGED nonAwakeVars

\* the rest of cleanup(): the two execSync calls and process.exit(0)
\* (stay-awake.ts 218-226)
CleanupRestoreWith(p, outcomes) ==
    /\ ppc[p] = "cleanup"
    /\ \E o \in outcomes :
        /\ timeout' = IF o = "firstFails" THEN timeout ELSE origT[p]
        /\ prox' = IF o = "both" THEN "auto" ELSE prox
    /\ ppc' = [ppc EXCEPT ![p] = CleanupEnd]
    /\ pexit' = [pexit EXCEPT ![p] = "clean"]
    /\ UNCHANGED <<pidFile, origT, cleanupInProgress, wpc, checked, touched, bodyRuns, wdid>>
    /\ UNCHANGED timerVars
    /\ UNCHANGED nonAwakeVars

\* SIGUSR1 reaches a parent whose handler is installed and whose event loop
\* is free (stay-awake.ts 235-238): resetIdleTimer()
Activity(p) ==
    /\ ppc[p] = "running"
    /\ resets[p] < MaxResets
    /\ armed[p] < MaxResets
    /\ ResetIdleTimer(p)
    /\ UNCHANGED <<pidFile, timeout, prox, ppc, origT, cleanupInProgress, pexit,
                   wpc, checked, touched, bodyRuns, wdid>>
    /\ UNCHANGED nonAwakeVars

\* the parent dies without running a handler: SIGKILL, or a terminating
\* signal before the handlers are installed; its timers and its count of
\* resets go with the process
Kill(p) ==
    /\ Alive(p)
    /\ ppc' = [ppc EXCEPT ![p] = "killed"]
    /\ armed' = [armed EXCEPT ![p] = 0]
    /\ resets' = [resets EXCEPT ![p] = 0]
    /\ UNCHANGED <<pidFile, timeout, prox, origT, cleanupInProgress, pexit, wpc,
                   checked, touched, bodyRuns, wdid>>
    /\ UNCHANGED nonAwakeVars

\* a tick of the watchdog's setInterval that finds the parent alive
\* (stay-awake.ts 56-60)
WatchPoll(p) ==
    /\ wpc[p] = "polling"
    /\ ProcessExists(p)
    /\ UNCHANGED awakeVars
    /\ UNCHANGED nonAwakeVars

\* the tick that finds the parent dead: clearInterval, the restoration and
\* process.exit(0) in one synchronous callback (stay-awake.ts 61-83); the PID
\* file is unlinked only after both execSync calls succeeded
WatchRestoreWith(p, outcomes) ==
    /\ wpc[p] = "polling"
    /\ ~ProcessExists(p)
    /\ \E o \in outcomes :
        /\ timeout' = IF o = "firstFails" THEN timeout ELSE origT[p]
        /\ prox' = IF o = "both" THEN "auto" ELSE prox
        /\ pidFile' = IF o = "both" THEN 0 ELSE pidFile
        /\ wdid' = [wdid EXCEPT ![p] =
                      CASE o = "both" -> {"timeout", "prox", "unlink"}
                        [] o = "secondFails" -> {"timeout"}
                        [] OTHER -> {}]
    /\ wpc' = [wpc EXCEPT ![p] = "exited"]
    /\ UNCHANGED <<ppc, origT, cleanupInProgress, pexit, checked, touched,
                   bodyRuns>>
    /\ UNCHANGED timerVars
    /\ UNCHANGED nonAwakeVars

CleanupRestore(p) == CleanupRestoreWith(p, RestoreOutcomes)

WatchRestore(p) == WatchRestoreWith(p, RestoreOutcomes)

AwakeInit ==
    /\ pidFile \in {0, DeadPid}
    /\ timeout = DeviceTimeout
    /\ prox = "auto"
    /\ ppc = [p \in Pids |-> "none"]
    /\ origT = [p \in Pids |-> 0]
    /\ cleanupInProgress = [p \in Pids |-> FALSE]
    /\ pexit = [p \in Pids |-> "none"]
    /\ wpc = [p \in Pids |-> "none"]
    /\ checked = [p \in Pids |-> "none"]
    /\ touched = [p \in Pids |-> FALSE]
    /\ bodyRuns = [p \in Pids |-> 0]
    /\ wdid = [p \in Pids |-> {}]
    /\ armed = [p \in Pids |-> 0]
    /\ resets = [p \in Pids |-> 0]

\* no stay-awake invocation and no PID file
AwakeIdle == AwakeInit /\ pidFile = 0


-----------------------------------------------------------------------------
(* The `open` command and its tab reuse: src/src/commands/open.ts *)

\* what `new URL(url)` gives for a url argument; valid is FALSE when it throws
ParsedUrl(text, protocol, hostname, hasPort, port) ==
    [text |-> text, valid |-> TRUE, protocol |-> protocol,
     hostname |-> hostname, hasPort |-> hasPort, port |-> port]

InvalidUrl(text) ==
    [text |-> text, valid |-> FALSE, protocol |-> "", hostname |-> "",
     hasPort |-> FALSE, port |-> 0]

\* the url arguments the model opens
Urls ==
    { ParsedUrl("http://localhost:8080/", "http:", "localhost", TRUE, 8080),
      ParsedUrl("https://localhost/", "https:", "localhost", FALSE, 0),
      ParsedUrl("ws://127.0.0.1/", "ws:", "127.0.0.1", FALSE, 0),
      ParsedUrl("http://127.0.0.1:443/", "http:", "127.0.0.1", TRUE, 443),
      ParsedUrl("https://example.com/", "https:", "example.com", FALSE, 0),
      ParsedUrl("http://example.com:8080/", "http:", "example.com", TRUE, 8080),
      ParsedUrl("about:blank", "about:", "", FALSE, 0),
      InvalidUrl("not a url") }

\* only the name counts as loopback
isLocalhost_NameOnly(u) == u.hostname = "localhost"

\* open.ts 107
isLocalhost(u) == u.hostname = "localhost" \/ u.hostname = "127.0.0.1"

\* open.ts 108-118: the port variable, NoPort for null
OpenPort(u) ==
    IF isLocalhost(u)
    THEN IF u.hasPort THEN u.port
         ELSE IF u.protocol = "https:" THEN 443 ELSE 80
    ELSE NoPort

\* open.ts 21: getCDPPort() is async and is not awaited, so the template
\* literal `http://localhost:${cdpPort}` renders the promise
CdpUrl == "http://localhost:[object Promise]"

\* open.ts 66-69
BlankUrls == {"about:blank", "chrome://newtab/", "chrome://panel-app-nav/ntp", ""}

\* urls a tab of the browser may show when url u is being opened
TabUrls(u) == {u.text, "http://other/"} \cup BlankUrls

\* one line of the peer's NDJSON output: kind "json" parses, "text" does
\* not; hasId FALSE is a missing or falsy id; hasUrl FALSE is an undefined
\* url; the tab on line i has id i
TabLine(kind, hasId, hasUrl, tabUrl) ==
    [kind |-> kind, hasId |-> hasId, hasUrl |-> hasUrl, url |-> tabUrl]

\* the lines the output can hold
TabLines(u) ==
    {TabLine("text", FALSE, FALSE, "")}
        \cup {TabLine("json", h, TRUE, t) : h \in BOOLEAN, t \in TabUrls(u)}
        \cup {TabLine("json", TRUE, FALSE, "")}

\* the stdout of a successful `tabs` query, as lines
TabOutputs(u) == UNION {[1..n -> TabLines(u)] : n \in 0..MaxTabLines}

\* open.ts 36-45: `if (tab.id && tab.url !== undefined) tabs.push(tab)`
KeepTab(l) == l.kind = "json" /\ l.hasId /\ l.hasUrl

ParseTabs(lines) ==
    LET Kept(i) == KeepTab(lines[i])
        idx == SelectSeq([i \in 1..Len(lines) |-> i], Kept)
    IN  [k \in 1..Len(idx) |-> [id |-> idx[k], url |-> lines[idx[k]].url]]

\* Array.prototype.find: the index of the first tab whose url is in S, 0 for
\* undefined
FindTab(ts, S) ==
    LET I == {i \in 1..Len(ts) : ts[i].url \in S}
    IN  IF I = {} THEN 0 ELSE CHOOSE i \in I : \A j \in I : i <= j

\* the last match instead of the first
FindLast(ts, S) ==
    LET I == {i \in 1..Len(ts) : ts[i].url \in S}
    IN  IF I = {} THEN 0 ELSE CHOOSE i \in I : \A j \in I : i >= j

existingTab_Last(ts, u) == FindLast(ts, {u.text})

\* open.ts 48
existingTab(ts, u) == FindTab(ts, {u.text})

blankTab_Last(ts) == FindLast(ts, BlankUrls)

\* open.ts 65-70
blankTab(ts) == FindTab(ts, BlankUrls)

\* only a spawn failure counts as a failed query
TabsFailed_OnlySpawn(r) == r = "spawnError"

\* open.ts 27: `result.code !== 0`; execCommandFull gives code 1 for a
\* command that could not be spawned
TabsFailed(r) == r # "ok"

T(op, id, target) == [op |-> op, id |-> id, target |-> target, cdp |-> CdpUrl]

TLog(op, id, target) == tcalls' = Append(tcalls, T(op, id, target))

TExit(reason) ==
    /\ tpc' = "done"
    /\ texit' = reason

\* openCommand starts: `new URL(url)` (open.ts 96-120)
OpenStart(u) ==
    /\ tpc = "idle"
    /\ url' = u
    /\ IF u.valid THEN tpc' = "checkPath" /\ UNCHANGED texit
       ELSE TExit("invalidUrl")
    /\ UNCHANGED <<retryCount, ndev, dcalls, launched, tabsResult, tabs, reloadResult, navigated,
                   tcalls>>
    /\ UNCHANGED nonOpenVars

\* checkADBPath (adb.ts 71-88)
OpenCheckPath ==
    /\ tpc = "checkPath"
    /\ \E ok \in BOOLEAN :
        IF ok THEN tpc' = "devices" /\ UNCHANGED texit
        ELSE TExit("noAdb")
    /\ UNCHANGED <<url, retryCount, ndev, dcalls, launched, tabsResult, tabs, reloadResult,
                   navigated, tcalls>>
    /\ UNCHANGED nonOpenVars

\* a recovery that is tried after every server fault
MayRestart_EveryTime(isServerIssue, count) == isServerIssue

\* adb.ts 135: `if (isServerIssue && retryCount === 0)`
MayRestart(isServerIssue, count) == isServerIssue /\ count = 0

\* one adb command of checkADBDevices; count is the retryCount of the call
D(op, count, result) == [op |-> op, count |-> count, result |-> result]

\* checkADBDevices (adb.ts 111-148): the listing shows n devices, or
\* `adb devices` fails; after a server fault of the first call
\* restartADBServer (adb.ts 93-106) runs and, when it succeeds, the check
\* is called again with retryCount 1
OpenCheckDevices ==
    /\ tpc = "devices"
    /\ \/ \E n \in 0..MaxDevices :
            /\ ndev' = n
            /\ dcalls' = Append(dcalls, D("devices", retryCount, "listed"))
            /\ IF n = 0 THEN TExit("noDevices")
               ELSE tpc' = "forward" /\ UNCHANGED texit
            /\ UNCHANGED retryCount
       \/ \E isServerIssue, restarted \in BOOLEAN :
            LET fault == IF isServerIssue THEN "serverFault" ELSE "fault"
                listing == D("devices", retryCount, fault)
                restart == D("restart", retryCount,
                             IF restarted THEN "restarted" ELSE "failed")
            IN  /\ IF MayRestart(isServerIssue, retryCount)
                   THEN /\ dcalls' = dcalls \o <<listing, restart>>
                        /\ IF restarted
                           THEN retryCount' = 1 /\ UNCHANGED <<tpc, texit>>
                           ELSE TExit("devicesFailed") /\ UNCHANGED retryCount
                   ELSE /\ dcalls' = Append(dcalls, listing)
                        /\ TExit("devicesFailed")
                        /\ UNCHANGED retryCount
                /\ UNCHANGED ndev
    /\ UNCHANGED <<url, tabsResult, tabs, reloadResult, navigated, launched,
                   tcalls>>
    /\ UNCHANGED nonOpenVars

\* open.ts 126-133: ensurePortForwarding(port) when port is not null,
\* ensureCDPForwarding() otherwise
OpenForward ==
    /\ tpc = "forward"
    /\ opc = "idle"
    /\ StartEnsure(OpenPort(url))

\* a forwarding setup whose failure would not end the process
SetupReturned_Always(exit) == TRUE

\* ensurePortForwarding / ensureCDPForwarding return only when nothing
\* failed; every failure inside them is a process.exit(1)
SetupReturned(exit) == exit = "ok"

\* the forwarding setup returned, or ended the process with exit code 1
OpenAfterForward ==
    /\ tpc = "forward"
    /\ opc = "done"
    /\ IF SetupReturned(oexit) THEN tpc' = "isRunning" /\ UNCHANGED texit
       ELSE TExit("forwarding")
    /\ UNCHANGED <<url, retryCount, ndev, dcalls, launched, tabsResult, tabs, reloadResult,
                   navigated, tcalls>>
    /\ UNCHANGED nonOpenVars

\* isBrowserRunning (adb.ts 229-236), `result.stdout.includes(browser)`:
\* every line of `ps | grep <package>` holds the package name, grep's own
\* line too; a failed command has an empty stdout
isBrowserRunning(out) == out # <<>>

\* `const browserRunning = await isBrowserRunning()` and the branch on it
\* (open.ts 136-141)
OpenIsRunning ==
    /\ tpc = "isRunning"
    /\ \E out \in PsOutputs :
        IF isBrowserRunning(out)
        THEN TLog("isRunning", 0, "true") /\ tpc' = "tabs"
        ELSE TLog("isRunning", 0, "false") /\ tpc' = "launch"
    /\ UNCHANGED <<url, retryCount, ndev, dcalls, launched, tabsResult, tabs, reloadResult,
                   navigated, texit>>
    /\ UNCHANGED nonOpenVars

\* where tryNavigateExistingTab goes after the exact-match pass (open.ts
\* 64-86)
BlankPass(ts) == IF blankTab(ts) # 0 THEN "navigate" ELSE "launch"

\* tryNavigateExistingTab: the `tabs` query and the parse (open.ts 20-49)
OpenTabs ==
    /\ tpc = "tabs"
    /\ TLog("tabs", 0, "")
    /\ \E r \in {"spawnError", "nonzero", "ok"} :
        /\ tabsResult' = r
        /\ IF TabsFailed(r)
           THEN /\ tpc' = "launch"
                /\ navigated' = "false"
                /\ UNCHANGED tabs
           ELSE \E lines \in TabOutputs(url) :
                LET ts == ParseTabs(lines)
                IN  /\ tabs' = ts
                    /\ tpc' = IF existingTab(ts, url) # 0 THEN "reload"
                              ELSE BlankPass(ts)
                    /\ navigated' = IF existingTab(ts, url) = 0
                                       /\ blankTab(ts) = 0
                                    THEN "false" ELSE "none"
    /\ UNCHANGED <<url, retryCount, ndev, dcalls, launched, reloadResult, texit>>
    /\ UNCHANGED nonOpenVars

\* a command that launches the browser whatever tryNavigateExistingTab
\* returned
Navigated_ThenLaunch == navigated' = "true" /\ tpc' = "launch" /\ UNCHANGED texit

\* `return true` of tryNavigateExistingTab and `if (!navigated)` (open.ts
\* 60, 83, 147-150): no launchBrowser, the command ends
Navigated == navigated' = "true" /\ TExit("ok")

\* the reload of the existing tab (open.ts 49-62)
OpenReload ==
    /\ tpc = "reload"
    /\ TLog("reload", tabs[existingTab(tabs, url)].id, "")
    /\ \E ok \in BOOLEAN :
        /\ reloadResult' = IF ok THEN "ok" ELSE "failed"
        /\ IF ok
           THEN Navigated
           ELSE /\ tpc' = BlankPass(tabs)
                /\ navigated' = IF blankTab(tabs) = 0 THEN "false" ELSE "none"
                /\ UNCHANGED texit
    /\ UNCHANGED <<url, retryCount, ndev, dcalls, launched, tabsResult, tabs>>
    /\ UNCHANGED nonOpenVars

\* the navigation of the blank tab (open.ts 72-86)
OpenNavigate ==
    /\ tpc = "navigate"
    /\ TLog("navigate", tabs[blankTab(tabs)].id, url.text)
    /\ \E ok \in BOOLEAN :
        IF ok THEN Navigated
        ELSE navigated' = "false" /\ tpc' = "launch" /\ UNCHANGED texit
    /\ UNCHANGED <<url, retryCount, ndev, dcalls, launched, tabsResult, tabs, reloadResult>>
    /\ UNCHANGED nonOpenVars

\* a command that ends with an error when the launch fails
LaunchDone_Checked(ok) == IF ok THEN TExit("ok") ELSE TExit("launchFailed")

\* `await launchBrowser(url);` (open.ts 140, 149): the value is dropped and
\* the command goes on to `Done!`
LaunchDone(ok) == TExit("ok")

\* launchBrowser(url) (adb.ts 241-260): true when `am start` succeeds, false
\* when it fails
OpenLaunch ==
    /\ tpc = "launch"
    /\ TLog("launch", 0, url.text)
    /\ \E ok \in BOOLEAN :
        /\ launched' = IF ok THEN "true" ELSE "false"
        /\ LaunchDone(ok)
    /\ UNCHANGED <<url, retryCount, ndev, dcalls, tabsResult, tabs, reloadResult,
                   navigated>>
    /\ UNCHANGED nonOpenVars

\* the browser the command finds: started, or started and settled, before
\* `open` is invoked
BrowserBefore(pid) ==
    /\ tpc = "idle"
    /\ BrowserStart(pid)

SettledBefore ==
    /\ tpc = "idle"
    /\ BrowserSettle

OpenInit ==
    /\ url = InvalidUrl("")
    /\ tpc = "idle"
    /\ retryCount = 0
    /\ ndev = -1
    /\ dcalls = <<>>
    /\ tabsResult = "none"
    /\ tabs = <<>>
    /\ reloadResult = "none"
    /\ navigated = "none"
    /\ launched = "none"
    /\ tcalls = <<>>
    /\ texit = "none"

-----------------------------------------------------------------------------
(* The `battery` command: src/src/commands/battery.ts *)

\* the result of `adb shell dumpsys battery`: its exit code and the values of
\* the lines getBatteryStatus reads; a line that is absent leaves the
\* variable at its initial value (level 0, current 0, powered false)
Dump(code, level, ac, usb, current) ==
    [code |-> code, level |-> level, acPowered |-> ac, usbPowered |-> usb,
     maxChargingCurrent |-> current]

NoDump == Dump(-1, 0, FALSE, FALSE, 0)

DumpResults ==
    {Dump(code, level, ac, usb, current) :
        code \in {0, 1, 127}, level \in {0, 5, 87, 100}, ac \in BOOLEAN,
        usb \in BOOLEAN,
        current \in {0, FastCurrent, FastCurrent + 1}}

\* getBatteryStatus, the charging state (adb.ts 379-390)
ChargingState(d) ==
    IF d.acPowered \/ d.usbPowered
    THEN IF d.maxChargingCurrent > FastCurrent THEN "fast charging"
         ELSE "charging"
    ELSE "not charging"

\* getBatteryStatus, its return value `${level}% ${state}`
BatteryStatus(d) == [level |-> d.level, state |-> ChargingState(d)]

DumpFailed_Never(d) == FALSE

\* getBatteryStatus: `if (result.code !== 0) throw`
DumpFailed(d) == d.code # 0

BExit(reason) ==
    /\ bpc' = "done"
    /\ bexit' = reason

BatteryStart ==
    /\ bpc = "idle"
    /\ bpc' = "checkPath"
    /\ UNCHANGED <<bdump, bprinted, bexit>>
    /\ UNCHANGED nonBatVars

\* checkADBPath (adb.ts 71-88)
BatteryCheckPath ==
    /\ bpc = "checkPath"
    /\ \E ok \in BOOLEAN :
        IF ok THEN bpc' = "devices" /\ UNCHANGED bexit
        ELSE BExit("noAdb")
    /\ UNCHANGED <<bdump, bprinted>>
    /\ UNCHANGED nonBatVars

\* battery.ts 15-29: the device listing inside try/catch; execCommand
\* rejects when `adb devices` fails
BatteryCheckDevices ==
    /\ bpc = "devices"
    /\ \/ \E n \in 0..MaxDevices :
            IF n = 0 THEN BExit("noDevices")
            ELSE bpc' = "status" /\ UNCHANGED bexit
       \/ BExit("devicesFailed")
    /\ UNCHANGED <<bdump, bprinted>>
    /\ UNCHANGED nonBatVars

\* battery.ts 32-33: `await getBatteryStatus()` outside any try; when it
\* throws, the promise batteryCommand returned is rejected
BatteryStatusStep ==
    /\ bpc = "status"
    /\ \E d \in DumpResults :
        /\ bdump' = d
        /\ IF DumpFailed(d)
           THEN BExit("rejected") /\ UNCHANGED bprinted
           ELSE bprinted' = BatteryStatus(d) /\ BExit("ok")
    /\ UNCHANGED nonBatVars

BatInit ==
    /\ bpc = "idle"
    /\ bdump = NoDump
    /\ bprinted = "none"
    /\ bexit = "none"

-----------------------------------------------------------------------------
(* The bridge executor: src/utils/exec.ts *)

\* the chunks a `data` event can carry
Chunks == {<<"a">>, <<"b", "\n">>}

\* the code of a `close` event: a number, or null when a signal ended the
\* child
Code(n) == [isNull |-> FALSE, n |-> n]
NullCode == [isNull |-> TRUE, n |-> 0]

\* exit codes of a child that ran, null included
ExitCodes == {Code(0), Code(1), Code(42), NullCode}

\* the code of the `close` event that follows a failed spawn: the negative
\* errno (ENOENT)
SpawnErrno == Code(-2)

CloseEvent(code) == [kind |-> "close", code |-> code]
ErrorEvent == [kind |-> "error", code |-> NullCode]
NoEvent == [kind |-> "none", code |-> NullCode]

\* the message of the error a failed spawn emits
SpawnMessage == <<"spawn", " ", "ENOENT">>

Pending == [state |-> "pending"]
\* execCommand resolves with a string, execCommandFull with an ExecResult
Resolved(v) == [state |-> "resolved", value |-> v]
Rejected(e) == [state |-> "rejected", error |-> e]

ExecResult(stdout, stderr, code) ==
    [stdout |-> stdout, stderr |-> stderr, code |-> code]

\* `new Error(`Command failed with code ${code}: ${stderr}`)`
CommandFailed(code, stderr) ==
    [name |-> "Error", kind |-> "failed", code |-> code, stderr |-> stderr]
\* the error object of the child's `error` event
SpawnError == [name |-> "Error", kind |-> "spawn", message |-> SpawnMessage]

IsZero_NotNull(code) == ~code.isNull

\* `code === 0`
IsZero(code) == ~code.isNull /\ code.n = 0

CodeOrOne_Raw(code) == code.n

\* `code ?? 1`
CodeOrOne(code) == IF code.isNull THEN 1 ELSE code.n

\* resolve and reject act on a pending promise only
Settle(outcome, event) ==
    IF xpromise.state = "pending"
    THEN xpromise' = outcome /\ xsettledBy' = event
    ELSE UNCHANGED <<xpromise, xsettledBy>>

\* execCommand / execCommandFull: the executor spawns the child
ExecCall(fn) ==
    /\ xpc = "idle"
    /\ xfn' = fn
    /\ xpc' = "running"
    /\ UNCHANGED <<xstdout, xstderr, xpromise, xsettledBy>>
    /\ UNCHANGED nonExecVars

\* proc.stdout.on('data'): `stdout += data.toString()`
StdoutData(chunk) ==
    /\ xpc = "running"
    /\ Len(xstdout) + Len(chunk) <= MaxOutLen
    /\ xstdout' = xstdout \o chunk
    /\ UNCHANGED <<xfn, xpc, xstderr, xpromise, xsettledBy>>
    /\ UNCHANGED nonExecVars

\* proc.stderr.on('data'): `stderr += data.toString()`
StderrData(chunk) ==
    /\ xpc = "running"
    /\ Len(xstderr) + Len(chunk) <= MaxOutLen
    /\ xstderr' = xstderr \o chunk
    /\ UNCHANGED <<xfn, xpc, xstdout, xpromise, xsettledBy>>
    /\ UNCHANGED nonExecVars

\* proc.on('close'): after a run with the child's exit code, after a failed
\* spawn with the errno
OnClose(code) ==
    /\ \/ xpc = "running" /\ code \in ExitCodes
       \/ xpc = "errored" /\ code = SpawnErrno
    /\ xpc' = "closed"
    /\ IF xfn = "execCommand"
       THEN IF IsZero(code)
            THEN Settle(Resolved(xstdout), CloseEvent(code))
            ELSE Settle(Rejected(CommandFailed(code, xstderr)), CloseEvent(code))
       ELSE Settle(Resolved(ExecResult(xstdout, xstderr, CodeOrOne(code))),
                   CloseEvent(code))
    /\ UNCHANGED <<xfn, xstdout, xstderr>>
    /\ UNCHANGED nonExecVars

\* proc.on('error'): the child could not be spawned, so it wrote nothing
OnError ==
    /\ xpc = "running"
    /\ xstdout = <<>>
    /\ xstderr = <<>>
    /\ xpc' = "errored"
    /\ IF xfn = "execCommand"
       THEN Settle(Rejected(SpawnError), ErrorEvent)
       ELSE Settle(Resolved(ExecResult(xstdout, SpawnMessage, 1)), ErrorEvent)
    /\ UNCHANGED <<xfn, xstdout, xstderr>>
    /\ UNCHANGED nonExecVars

ExecInit ==
    /\ xfn = "none"
    /\ xpc = "idle"
    /\ xstdout = <<>>
    /\ xstderr = <<>>
    /\ xpromise = Pending
    /\ xsettledBy = NoEvent

-----------------------------------------------------------------------------
(* Screenshot file names: src/utils/filename.ts *)

\* A Date: the fields its getUTC* methods return (the month counted from 0)
\* and the offset of the local time zone in hours, which the getHours family
\* adds
Date(year, month0, day, hours, minutes, seconds, tz) ==
    [year |-> year, month0 |-> month0, day |-> day, hours |-> hours,
     minutes |-> minutes, seconds |-> seconds, tz |-> tz]

Dates ==
    {Date(year, month0, day, hours, minutes, seconds, tz) :
        year \in {1999, 2026}, month0 \in {0, 11}, day \in {1, 5, 31},
        hours \in {0, 8, 23}, minutes \in {0, 9, 59}, seconds \in {0, 3, 45},
        tz \in {-8, 0, 9}}

getUTCHours(d) == d.hours
\* Date.prototype.getHours: the hour on the local clock
getHours(d) == (d.hours + d.tz + 24) % 24

\* String.prototype.padStart
RECURSIVE padStart(_, _, _)
padStart(str, targetLength, pad) ==
    IF Len(str) >= targetLength THEN str
    ELSE padStart(<<pad>> \o str, targetLength, pad)

\* generateScreenshotFilename reading the local clock's hour
generateScreenshotFilename_Local(d) ==
    <<"screenshot-">> \o Digits(d.year)
        \o <<"-">> \o padStart(Digits(d.month0 + 1), 2, "0")
        \o <<"-">> \o padStart(Digits(d.day), 2, "0")
        \o <<"-">> \o padStart(Digits(getHours(d)), 2, "0")
        \o <<"-">> \o padStart(Digits(d.minutes), 2, "0")
        \o <<"-">> \o padStart(Digits(d.seconds), 2, "0")
        \o <<"-Z.jpg">>

generateScreenshotFilename(d) ==
    <<"screenshot-">> \o Digits(d.year)
        \o <<"-">> \o padStart(Digits(d.month0 + 1), 2, "0")
        \o <<"-">> \o padStart(Digits(d.day), 2, "0")
        \o <<"-">> \o padStart(Digits(getUTCHours(d)), 2, "0")
        \o <<"-">> \o padStart(Digits(d.minutes), 2, "0")
        \o <<"-">> \o padStart(Digits(d.seconds), 2, "0")
        \o <<"-Z.jpg">>

GenerateFilename ==
    /\ fname = <<>>
    /\ fname' = generateScreenshotFilename(fdate)
    /\ UNCHANGED fdate
    /\ UNCHANGED nonNameVars

NameIdle ==
    /\ fdate = Date(2026, 0, 15, 14, 30, 45, 0)
    /\ fname = <<>>

NameInit ==
    /\ fdate \in Dates
    /\ fname = <<>>

-----------------------------------------------------------------------------
(* Specifications: one per command; the other commands' state stays idle *)

\* the commands added after the first five stay idle
RestInit == BatInit /\ ExecInit /\ NameIdle

InitFwd == FwdInit /\ ShotInit /\ JpegIdle /\ AwakeIdle /\ OpenInit /\ RestInit

NextFwd ==
    \/ \E p \in Ports \cup {NoPort} : StartEnsure(p)
    \/ GetBrowserPID
    \/ DetectSocket
    \/ ReverseList
    \/ ReverseCreate
    \/ ForwardList
    \/ Probe
    \/ ForwardCreate
    \/ \E pid \in BrowserPids : BrowserStart(pid)
    \/ BrowserSettle
    \/ BrowserStop
    \/ \E p \in Ports : ReverseAdd(p)
    \/ ReverseRemoveAll
    \/ ForwardRemoveAll
    \/ \E port \in CdpPorts : ForeignStart(port)


SpecFwd == InitFwd /\ [][NextFwd]_vars

InitJpeg == JpegInit /\ FwdInit /\ ShotInit /\ AwakeIdle /\ OpenInit /\ RestInit

NextJpeg == JpegCheck

SpecJpeg == InitJpeg /\ [][NextJpeg]_vars

InitShot == ShotInit /\ FwdInit /\ JpegIdle /\ AwakeIdle /\ OpenInit /\ RestInit

NextShot ==
    \/ ShotStart
    \/ CheckPath
    \/ CheckDevices
    \/ CheckUsb
    \/ CheckAwake
    \/ Snapshot
    \/ Trigger
    \/ PollList
    \/ PollVerify
    \/ CheckFilename
    \/ Pull
    \/ Delete
    \/ \E jpg \in BOOLEAN : NewFile(jpg)
    \/ WriteByte
    \/ \E i \in 1..MaxFiles : RemoveFile(i)

SpecShot == InitShot /\ [][NextShot]_vars

\* the capture engine with the history of the files older than the trigger
NextCapture ==
    \/ ShotStart
    \/ CheckPath
    \/ CheckDevices
    \/ CheckUsb
    \/ CheckAwake
    \/ Snapshot
    \/ TriggerNoting(TRUE)
    \/ PollList
    \/ PollVerify
    \/ CheckFilename
    \/ Pull
    \/ Delete
    \/ \E jpg \in BOOLEAN : NewFile(jpg)
    \/ WriteByte
    \/ \E i \in 1..MaxFiles : RemoveFile(i)

SpecCapture == InitShot /\ [][NextCapture]_vars

InitAwake == AwakeInit /\ FwdInit /\ ShotInit /\ JpegIdle /\ OpenInit /\ RestInit

NextAwake ==
    \E p \in Pids :
        \/ AwakeStart(p)
        \/ Prereq(p)
        \/ PidCheck(p)
        \/ GetTimeout(p)
        \/ WritePid(p)
        \/ Spawn(p)
        \/ WakeProx(p)
        \/ SetLong(p)
        \/ \E sig \in {"SIGINT", "SIGTERM", "SIGHUP"} : Signal(p, sig)
        \/ IdleFire(p)
        \/ CleanupRestore(p)
        \/ Kill(p)
        \/ WatchPoll(p)
        \/ WatchRestore(p)

SpecAwake == InitAwake /\ [][NextAwake]_vars

\* one session alone, with activity signals, whose watchdog is spawned and
\* whose restoring bridge commands succeed
NextSession ==
    \/ AwakeStart(1)
    \/ Prereq(1)
    \/ PidCheck(1)
    \/ GetTimeout(1)
    \/ WritePid(1)
    \/ SpawnWith(1, {TRUE})
    \/ WakeProx(1)
    \/ SetLong(1)
    \/ \E sig \in {"SIGINT", "SIGTERM", "SIGHUP"} : Signal(1, sig)
    \/ Activity(1)
    \/ IdleFire(1)
    \/ CleanupRestoreWith(1, {"both"})
    \/ Kill(1)
    \/ WatchPoll(1)
    \/ WatchRestoreWith(1, {"both"})

SpecSession == InitAwake /\ [][NextSession]_vars

InitOpen == OpenInit /\ FwdInit /\ ShotInit /\ JpegIdle /\ AwakeIdle /\ RestInit

NextOpen ==
    \/ \E u \in Urls : OpenStart(u)
    \/ OpenCheckPath
    \/ OpenCheckDevices
    \/ OpenForward
    \/ GetBrowserPID
    \/ DetectSocket
    \/ ReverseList
    \/ ReverseCreate
    \/ ForwardList
    \/ Probe
    \/ ForwardCreate
    \/ OpenAfterForward
    \/ OpenIsRunning
    \/ OpenTabs
    \/ OpenReload
    \/ OpenNavigate
    \/ OpenLaunch
    \/ \E pid \in BrowserPids : BrowserBefore(pid)
    \/ SettledBefore

SpecOpen == InitOpen /\ [][NextOpen]_vars

InitBattery ==
    /\ BatInit /\ ExecInit /\ OpenInit /\ FwdInit /\ ShotInit /\ JpegIdle
    /\ AwakeIdle /\ NameIdle

NextBattery ==
    \/ BatteryStart
    \/ BatteryCheckPath
    \/ BatteryCheckDevices
    \/ BatteryStatusStep

SpecBattery == InitBattery /\ [][NextBattery]_vars

InitExec ==
    /\ ExecInit /\ BatInit /\ OpenInit /\ FwdInit /\ ShotInit /\ JpegIdle
    /\ AwakeIdle /\ NameIdle

NextExec ==
    \/ \E fn \in {"execCommand", "execCommandFull"} : ExecCall(fn)
    \/ \E chunk \in Chunks : StdoutData(chunk)
    \/ \E chunk \in Chunks : StderrData(chunk)
    \/ \E code \in ExitCodes \cup {SpawnErrno} : OnClose(code)
    \/ OnError

SpecExec == InitExec /\ [][NextExec]_vars

InitName ==
    /\ NameInit /\ ExecInit /\ BatInit /\ OpenInit /\ FwdInit /\ ShotInit
    /\ JpegIdle /\ AwakeIdle

NextName == GenerateFilename

SpecName == InitName /\ [][NextName]_vars

-----------------------------------------------------------------------------
(* Properties of the forwarding manager *)

Count(op) == Cardinality({i \in DOMAIN ocalls : ocalls[i].op = op})

Reported(op, arg) == \E i \in DOMAIN ocalls : ocalls[i] = E(op, arg)

\* the reverse half of ensurePortForwarding is over
RevPhaseOver == opc = "fwdList" \/ Count("forward-list") > 0

\* C1: when the reverse list that ensurePortForwarding(P) read binds P, the
\* invocation issues no `adb reverse tcp:P tcp:P` call and reports the reverse
\* forwarding as already set up.
C1_BoundPortNoCreate ==
    listBinds = "yes" =>
        /\ Count("reverse-create") = 0
        /\ Reported("log:reverse-already", oport)
        /\ opc # "revCreate"

C1_Witness ==
    /\ listBinds = "yes"
    /\ opc = "done"
    /\ oexit = "ok"
    /\ Reported("log:reverse-already", oport)

\* C2: when no rule of the reverse list that ensurePortForwarding(P) read has
\* port P, the invocation issues exactly one `adb reverse tcp:P tcp:P` call;
\* and a run against the list its predecessor left after creating the rule
\* for P issues none.
C2_UnboundPortOneCreate ==
    /\ (listBinds = "no" /\ RevPhaseOver) => Count("reverse-create") = 1
    /\ secondRun => Count("reverse-create") = 0

\* the second half of C2 alone
C2_SecondRunNoCreate == secondRun => Count("reverse-create") = 0

\* C3: with no foreign process listening on a CDP port, no forwarding setup
\* stops with a port conflict.
C3_NoSelfConflict == foreignListen = {} => oexit # "portConflict"

\* C4: after the forward rule was not found in the list, `adb forward` is
\* issued only after a probe that failed (error or timeout); a probe that
\* connects ends the setup with the port-in-use error naming cdpPort, with no
\* `adb forward` call and no second probe.
C4_ProbeGatesForward ==
    /\ probeOutcome = "connect" =>
        /\ opc = "done"
        /\ oexit = "portConflict"
        /\ Count("forward-create") = 0
        /\ Count("probe") = 1
        /\ ocalls[Len(ocalls)] = E("err:port-in-use", cdpPort)
    /\ (opc = "fwdCreate" \/ Count("forward-create") > 0) =>
        /\ probeOutcome \in {"error", "timeout"}
        /\ Count("forward-create") <= 1
        /\ Count("probe") = 1
    /\ oexit = "portConflict" => probeOutcome = "connect"

C4_Witness ==
    /\ probeOutcome = "connect"
    /\ cdpPort \in foreignListen
    /\ oexit = "portConflict"

-----------------------------------------------------------------------------
(* Properties of the capture engine *)

\* the file's last two bytes are the end-of-image marker FF D9
EndsWithEOI(content) ==
    /\ Len(content) >= 2
    /\ content[Len(content) - 1] = 255
    /\ content[Len(content)] = 217

\* C5: isJpegComplete answers true exactly when the `tail -c 2` child closes
\* with exit code 0 and the file's last two bytes are FF D9; any other pair,
\* a shorter file, a nonzero exit or a spawn error give false, whatever the
\* file's length.
C5_VerifiedIffEOI ==
    jresult # "none" =>
        (jresult = "verified" <=>
            /\ joutcome.kind = "close"
            /\ joutcome.code = 0
            /\ EndsWithEOI(jcontent))

C5_Witness ==
    /\ jresult = "verified"
    /\ Len(jcontent) = 3

\* C6: the poll loop lists at most maxAttempts (20) times; when no tick
\* yields a new file that verifies, it lists exactly 20 times, then the
\* command exits nonzero with the timeout diagnostic and has issued no pull
\* and no remote delete; the tick at which a new file verifies is the last.
C6_PollBounded ==
    /\ ticks <= maxAttempts
    /\ sexit = "timeout" =>
        /\ ticks = maxAttempts
        /\ verifiedAt = {}
        /\ nPull = 0 /\ nDelete = 0
    /\ verifiedAt = {} =>
        /\ nPull = 0 /\ nDelete = 0
        /\ spc \notin {"pull", "delete", "afterLoop"}
        /\ (spc = "done" /\ ticks > 0) => sexit = "timeout"
    /\ verifiedAt # {} =>
        /\ verifiedAt = {ticks}
        /\ spc \notin {"poll", "verify"}
        /\ sexit # "timeout"

C6_Witness ==
    /\ sexit = "timeout"
    /\ ticks = maxAttempts
    /\ files # <<>>
    /\ getMostRecentScreenshot(TRUE, files) \notin {0, existingScreenshot}

-----------------------------------------------------------------------------
(* Properties of the stay-awake session and its watchdog *)

\* a live parent that passed the PID-file check and set the long timeout
Active(p) == ppc[p] \in {"running", "cleanup"}

C7_RefusedUntouched(p) ==
    checked[p] = "live" =>
        /\ ppc[p] = "exited"
        /\ pexit[p] = "alreadyRunning"
        /\ ExitCode(pexit[p]) = 1
        /\ ~touched[p]
        /\ origT[p] = 0
        /\ wpc[p] = "none"

C7_CheckStep(p) ==
    /\ (checked[p] = "none" /\ checked'[p] = "live") =>
            UNCHANGED <<pidFile, timeout, prox, wpc, origT>>
    /\ (checked[p] = "none" /\ checked'[p] = "stale") =>
            (pidFile # 0 /\ pidFile' = 0 /\ ppc'[p] = "getTimeout")
    /\ (/\ checked[p] = "stale"
        /\ ppc[p] = "writePid"
        /\ ppc'[p] = "spawn"
        /\ pidFile' # pidFile) => pidFile' = p

\* C7: a start that finds the PID file recording a live process exits with
\* status 1 without reading or changing a device setting, rewriting the PID
\* file or spawning a watchdog; a start that finds it recording a dead process
\* deletes the stale file, is not refused, and its write of the PID file
\* leaves the file recording its own pid
C7_MutualExclusionCheck ==
    /\ [](\A p \in Pids : C7_RefusedUntouched(p)
                          /\ (checked[p] = "stale" => pexit[p] # "alreadyRunning"))
    /\ [][\A p \in Pids : C7_CheckStep(p)]_vars

\* one start was refused by a live session, and another start replaced a
\* dead session's file by its own
C7_Witness ==
    \E p, q \in Pids :
        /\ checked[p] = "live"
        /\ ppc[p] = "exited"
        /\ checked[q] = "stale"
        /\ pidFile = q
        /\ ppc[q] = "running"

\* C8 (as stated): in every interleaving of stay-awake invocations at most
\* one live parent has passed the PID-file check and set the long timeout
C8_AtMostOneActive ==
    \A p, q \in Pids : (Active(p) /\ Active(q)) => p = q

C8_CheckStep(p) ==
    (/\ checked[p] = "none"
     /\ checked'[p] # "none"
     /\ pidFile \in Pids
     /\ Alive(pidFile)) => checked'[p] = "live"

\* C8 (amended): the check is advisory; a start whose check finds the file
\* recording a live process is refused and never becomes active, so sessions
\* are active together only when none of them saw another's pid live at its
\* check
C8_AdvisoryExclusion ==
    /\ [](\A p \in Pids : Active(p) => checked[p] \in {"absent", "stale"})
    /\ [][\A p \in Pids : C8_CheckStep(p)]_vars

\* two sessions active together, the PID file recording one of them
C8_Witness ==
    \E p, q \in Pids :
        /\ p # q
        /\ Active(p)
        /\ Active(q)
        /\ pidFile \in {p, q}

\* C9: a watchdog that found its parent dead and has terminated restored the
\* timeout, re-enabled the proximity sensor and deleted the PID file, all of
\* them and once
C9_WatchdogRestoresFully ==
    \A p \in Pids :
        wpc[p] = "exited" => wdid[p] = {"timeout", "prox", "unlink"}

\* C10: whatever signals and idle-timer firings reach a parent, its cleanup
\* body runs at most once, and once it has run the process is in cleanup or
\* gone, with exit status 0 when cleanup completed
C10_CleanupSinglePass ==
    \A p \in Pids :
        /\ bodyRuns[p] <= 1
        /\ cleanupInProgress[p] <=> bodyRuns[p] = 1
        /\ cleanupInProgress[p] => ppc[p] \in {"cleanup", "exited", "killed"}
        /\ pexit[p] = "clean" =>
            (ppc[p] = "exited" /\ bodyRuns[p] = 1 /\ ExitCode(pexit[p]) = 0)

\* a parent whose cleanup ran to its end
C10_Witness ==
    \E p \in Pids : pexit[p] = "clean" /\ ppc[p] = "exited" /\ bodyRuns[p] = 1

-----------------------------------------------------------------------------
(* Properties of the `open` command *)

\* the commands of one kind the controller has issued, in order
Issued(op) ==
    LET IsOp(c) == c.op = op
    IN  SelectSeq(tcalls, IsOp)

\* tab i is the first listed tab whose url is in S
FirstWith(i, S) ==
    /\ i \in 1..Len(tabs)
    /\ tabs[i].url \in S
    /\ \A j \in 1..(i - 1) : tabs[j].url \notin S

\* C11: when a listed tab shows the target url and the reload of the first
\* such tab succeeded, the controller has issued one reload, on that tab's
\* id, no navigate and no launch, and the command is done
C11_ExactMatchReload ==
    (tabsResult = "ok" /\ reloadResult = "ok"
        /\ \E i \in 1..Len(tabs) : tabs[i].url = url.text) =>
        /\ \E i \in 1..Len(tabs) :
            /\ FirstWith(i, {url.text})
            /\ Len(Issued("reload")) = 1
            /\ Issued("reload")[1].id = tabs[i].id
        /\ Issued("navigate") = <<>>
        /\ Issued("launch") = <<>>
        /\ tpc = "done"
        /\ texit = "ok"

\* two tabs show the target and the first one was reloaded
C11_Witness ==
    /\ Len(tabs) = 2
    /\ tabs[1].url = url.text
    /\ tabs[2].url = url.text
    /\ reloadResult = "ok"
    /\ Len(Issued("reload")) = 1

\* the urls the blank-tab pass accepts
C12_Sentinels ==
    {"about:blank", "chrome://newtab/", "chrome://panel-app-nav/ntp", ""}

\* C12: a navigate is issued at most once, only when no tab shows the target
\* or the reload failed, on the first listed tab that shows a blank sentinel
\* and with the target url; after a navigate that succeeded there is no launch
C12_BlankTabNavigate ==
    /\ Len(Issued("navigate")) <= 1
    /\ Issued("navigate") # <<>> =>
        /\ \/ \A i \in 1..Len(tabs) : tabs[i].url # url.text
           \/ reloadResult = "failed"
        /\ \E i \in 1..Len(tabs) :
            /\ FirstWith(i, C12_Sentinels)
            /\ Issued("navigate")[1].id = tabs[i].id
        /\ Issued("navigate")[1].target = url.text
        /\ navigated = "true" => (Issued("launch") = <<>> /\ texit = "ok")

\* the target is itself a blank sentinel: the reload of the tab that shows it
\* failed, and that tab, the first blank one of two, was navigated with success
C12_Witness ==
    /\ Len(tabs) = 2
    /\ reloadResult = "failed"
    /\ tabs[1].url = url.text
    /\ tabs[1].url \in C12_Sentinels
    /\ tabs[2].url = ""
    /\ Len(Issued("navigate")) = 1
    /\ navigated = "true"

\* C13: when the `tabs` query could not be spawned or exited nonzero, no
\* reload and no navigate is ever issued, the command goes on to launch the
\* target url, and it ends with exit code 0
C13_PeerFailureDegrades ==
    tabsResult \in {"spawnError", "nonzero"} =>
        /\ Issued("reload") = <<>>
        /\ Issued("navigate") = <<>>
        /\ tpc \in {"launch", "done"}
        /\ tpc = "done" =>
            /\ texit = "ok"
            /\ Len(Issued("launch")) = 1
            /\ Issued("launch")[1].target = url.text

\* the peer could not be spawned and the url was launched
C13_Witness ==
    /\ tabsResult = "spawnError"
    /\ tpc = "done"
    /\ Len(Issued("launch")) = 1

\* the forwarding commands of one kind issued by the setup
FwdIssued(op) ==
    LET IsOp(c) == c.op = op
    IN  SelectSeq(ocalls, IsOp)

\* C14: the forwarding setup openCommand starts is ensurePortForwarding with
\* the url's explicit port, or 443 for https and 80 for another protocol,
\* exactly when the host is localhost or 127.0.0.1; for another host it is
\* ensureCDPForwarding, which lists and creates no reverse rule; both go on
\* to the CDP forward rule
C14_LocalVsExternal ==
    (tpc # "idle" /\ opc # "idle") =>
        LET local == url.hostname \in {"localhost", "127.0.0.1"}
            port == IF url.hasPort THEN url.port
                    ELSE IF url.protocol = "https:" THEN 443 ELSE 80
        IN  /\ local => oport = port
            /\ ~local => oport = NoPort
            /\ (local /\ opc \notin {"ps", "unix", "revList"}) =>
                    (Len(FwdIssued("reverse-list")) = 1
                        /\ FwdIssued("reverse-list")[1].arg = port)
            /\ ~local => (FwdIssued("reverse-list") = <<>>
                            /\ FwdIssued("reverse-create") = <<>>)
            /\ oexit = "ok" => Len(FwdIssued("forward-list")) = 1

\* a loopback url without a port and not https: the command finished with
\* the reverse rule for port 80 in place
C14_Witness ==
    /\ url.hostname = "127.0.0.1"
    /\ ~url.hasPort
    /\ oport = 80
    /\ <<80, 80>> \in reverseRules
    /\ oexit = "ok"
    /\ tpc = "done"

-----------------------------------------------------------------------------
(* Properties of the socket resolution *)

\* the step that ends getBrowserPID
C15_LookupStep == opc = "ps" /\ opc' # "ps"

\* C15: the socket resolution always returns: with no browser process the
\* lookup (empty output, or grep's own line only) gives no pid, and whenever
\* the lookup gives no usable pid (null, or a pid parseInt could not read)
\* the resolution ends at once with the generic socket and port 9223
C15_ResolveFallsBack ==
    [][C15_LookupStep =>
          /\ browserPid = 0 => cdpPid' = 0
          /\ cdpPid' <= 0 => /\ opc' = AfterDetect(oport)
                             /\ cdpSocket' = GenericSocket
                             /\ cdpPort' = GenericCdpPort]_vars

\* the browser runs and exposes its PID-scoped socket, the lookup read an
\* unparsable pid, and the setup finished on the generic socket
C15_Witness ==
    /\ browserPid > 0
    /\ browserPid \in unixSockets
    /\ cdpPid = -1
    /\ cdpSocket = GenericSocket
    /\ cdpPort = GenericCdpPort
    /\ oexit = "ok"

\* C20: in every device state getCDPPort gives 9223, whatever the process
\* listing prints and whether or not the socket listing succeeds
C20_GetCDPPortIs9223 ==
    \A out \in PsOutputs : \A ok \in BOOLEAN :
        getCDPPort(out, IF ok THEN UnixText ELSE <<>>) = GenericCdpPort

-----------------------------------------------------------------------------
(* Properties of the prerequisite checks *)

\* C16: a listing of two or more attached devices ends the prerequisite
\* check with a nonzero exit: the command does not go on to the device
C16_MultipleDevicesRejected ==
    ndev >= 2 => (tpc = "done" /\ texit \in {"noDevices", "devicesFailed"})

-----------------------------------------------------------------------------
(* Properties of the bridge executor *)

\* the child has ended, by a close or by a failed spawn
ChildEnded == xpc \in {"errored", "closed"}

\* C18: execCommand's promise is settled once the child has ended; it is
\* resolved exactly when the child closed with exit code 0, and then with
\* the captured stdout; a close with another code (or with none) rejects
\* it with an error that carries that code and the captured stderr, and a
\* spawn error rejects it with that error
C18_ExecCommand ==
    xfn = "execCommand" =>
        /\ ChildEnded <=> xpromise.state # "pending"
        /\ xpromise.state = "resolved" <=>
                (xsettledBy.kind = "close" /\ xsettledBy.code = Code(0))
        /\ xpromise.state = "resolved" => xpromise.value = xstdout
        /\ (xsettledBy.kind = "close" /\ xsettledBy.code # Code(0)) =>
                xpromise = Rejected(CommandFailed(xsettledBy.code, xstderr))
        /\ xsettledBy.kind = "error" => xpromise = Rejected(SpawnError)

\* the child wrote to both streams and exited with code 42: rejected with
\* the code and the stderr text
C18_Witness ==
    /\ xfn = "execCommand"
    /\ xstdout # <<>>
    /\ xstderr # <<>>
    /\ xsettledBy = CloseEvent(Code(42))
    /\ xpromise.state = "rejected"
    /\ xpromise.error.code = Code(42)
    /\ xpromise.error.stderr = xstderr

\* C19: execCommandFull's promise is never rejected and is resolved once the
\* child has ended: after a close with {stdout, stderr, code}, the code
\* being the exit code, or 1 when the exit code is null; after a spawn error
\* with code 1 and the error's message as stderr
C19_ExecCommandFull ==
    xfn = "execCommandFull" =>
        /\ xpromise.state # "rejected"
        /\ ChildEnded <=> xpromise.state = "resolved"
        /\ xsettledBy.kind = "close" =>
                xpromise.value =
                    ExecResult(xstdout, xstderr,
                               IF xsettledBy.code.isNull THEN 1
                               ELSE xsettledBy.code.n)
        /\ xsettledBy.kind = "error" =>
                (xpromise.value.code = 1 /\ xpromise.value.stderr = SpawnMessage)

\* a signal ended the child after it wrote to stderr: resolved with code 1
C19_Witness ==
    /\ xfn = "execCommandFull"
    /\ xstderr # <<>>
    /\ xsettledBy = CloseEvent(NullCode)
    /\ xpromise.state = "resolved"
    /\ xpromise.value.code = 1

-----------------------------------------------------------------------------
(* Properties of the screenshot file names *)

\* the number a run of decimal digits writes
RECURSIVE ParseInt(_)
ParseInt(ds) ==
    IF ds = <<>> THEN 0
    ELSE 10 * ParseInt(SubSeq(ds, 1, Len(ds) - 1))
            + (CHOOSE k \in 0..9 : DigitChar[k + 1] = ds[Len(ds)])

\* the digits of fname from position i to position j
Field(i, j) == ParseInt(SubSeq(fname, i, j))

\* C21: the name returned is `screenshot-`, the four digits of the UTC year,
\* then the UTC month, day, hour, minute and second, each as exactly two
\* digits after a `-`, then `-Z.jpg`, whatever the local time zone is
C21_FilenameFormat ==
    fname # <<>> =>
        /\ Len(fname) = 21
        /\ fname[1] = "screenshot-"
        /\ \A i \in {6, 9, 12, 15, 18} : fname[i] = "-"
        /\ fname[21] = "-Z.jpg"
        /\ Field(2, 5) = fdate.year
        /\ Field(7, 8) = fdate.month0 + 1
        /\ Field(10, 11) = fdate.day
        /\ Field(13, 14) = fdate.hours
        /\ Field(16, 17) = fdate.minutes
        /\ Field(19, 20) = fdate.seconds

\* midnight on 5 January, seen from a zone where the local clock shows
\* another day: the name reads 01-05-00-00
C21_Witness ==
    /\ fname # <<>>
    /\ fdate.month0 = 0 /\ fdate.day = 5
    /\ fdate.hours = 0 /\ fdate.minutes = 0
    /\ fdate.tz = -8
    /\ SubSeq(fname, 6, 17)
          = <<"-", "0", "1", "-", "0", "5", "-", "0", "0", "-", "0", "0">>

-----------------------------------------------------------------------------
(* Properties of the forwarding rules across invocations *)

\* the position of the first call with this op in the invocation's log, 0
\* when there is none
FirstCall(op) ==
    IF Count(op) = 0 THEN 0
    ELSE CHOOSE i \in DOMAIN ocalls :
            ocalls[i].op = op /\ \A j \in 1..(i - 1) : ocalls[j].op # op

\* the bridge calls the forwarding setup can issue: lookups, listings, the
\* probe and creations, and no removal
C22_Calls ==
    {"ps", "unix", "unix-failed", "reverse-list", "reverse-create", "forward-list", "probe",
     "forward-create"}

\* what the setup prints
C22_Reports ==
    {"log:reverse-already", "log:reverse-setup", "log:forward-already",
     "log:forward-setup", "err:port-in-use"}

\* every call of the log is one of C22_Calls or a report, each creation comes
\* once and after the listing of its table
C22_ListedFirst ==
    /\ \A i \in DOMAIN ocalls : ocalls[i].op \in C22_Calls \cup C22_Reports
    /\ Count("reverse-create") <= 1
    /\ Count("forward-create") <= 1
    /\ Count("reverse-create") = 1 =>
            (Count("reverse-list") = 1
                /\ FirstCall("reverse-list") < FirstCall("reverse-create"))
    /\ Count("forward-create") = 1 =>
            (Count("forward-list") = 1
                /\ FirstCall("forward-list") < FirstCall("forward-create"))

\* a step of the forwarding setup: each one logs a call
C22_ToolStep == ocalls' # ocalls

\* what one step of the setup may do: go to a creation only from the listing
\* of that table, and only when the table listed lacked the rule; leave no
\* table with fewer rules
C22_Step ==
    /\ (opc' = "revCreate" /\ opc # "revCreate") =>
            (opc = "revList" /\ <<oport, oport>> \notin reverseRules)
    /\ (opc' = "probe" /\ opc # "probe") =>
            (opc = "fwdList" /\ <<cdpPort, cdpSocket>> \notin forwardRules)
    /\ (opc' = "fwdCreate" /\ opc # "fwdCreate") => opc = "probe"
    /\ C22_ToolStep =>
            /\ Cardinality(reverseRules') >= Cardinality(reverseRules)
            /\ Cardinality(forwardRules') >= Cardinality(forwardRules)
            /\ reverseRules \subseteq reverseRules'

\* C22: over any sequence of invocations, a creation call follows a listing
\* of the same table in the same invocation and is issued only when that
\* listing lacked the rule; no removal call is issued, and no step of the
\* tool leaves the reverse or the forward table with fewer rules
C22_CreateAfterListOnly == [](C22_ListedFirst) /\ [][C22_Step]_vars

\* an invocation that found the reverse rule its predecessor created, and
\* created the forward rule for a socket the list did not have
C22_Witness ==
    /\ secondRun
    /\ Count("reverse-list") = 1
    /\ Count("reverse-create") = 0
    /\ Count("forward-create") = 1
    /\ oexit = "ok"
    /\ Cardinality(forwardRules) = 1

-----------------------------------------------------------------------------
(* Properties of the order of steps in `open` *)

\* the ways `open` ends before it looks at the browser
C23_EarlyExits ==
    {"invalidUrl", "noAdb", "noDevices", "devicesFailed", "forwarding"}

\* C23: the browser-running check, the peer's commands and the launch are
\* issued only after this invocation's prerequisite checks passed and its
\* forwarding setup returned with success; an invocation that ends in a
\* failed check or a failed setup has issued none of them
C23_ForwardingFirst ==
    /\ tcalls # <<>> =>
            (url.valid /\ ndev >= 1 /\ opc = "done" /\ oexit = "ok"
                /\ Count("forward-list") = 1
                /\ texit \notin C23_EarlyExits)
    /\ texit \in C23_EarlyExits => tcalls = <<>>

\* the setup created both rules, and only then the running check, the
\* `tabs` query and a reload were issued
C23_Witness ==
    /\ Count("reverse-create") = 1
    /\ Count("forward-create") = 1
    /\ Len(tcalls) = 3
    /\ tcalls[1].op = "isRunning"
    /\ tcalls[2].op = "tabs"
    /\ tcalls[3].op = "reload"

\* the forward rule could not be created and the command ended there
C23_WitnessFailed ==
    /\ oexit = "setupFailed"
    /\ Count("forward-create") = 1
    /\ texit = "forwarding"
    /\ tcalls = <<>>

-----------------------------------------------------------------------------
(* Properties of the order of steps in `screenshot` *)

\* positions of screenshotCommand before the capture action is invoked
BeforeTrigger ==
    {"idle", "checkPath", "checkDevices", "checkUsb", "checkAwake", "snapshot",
     "trigger"}

\* C24: the capture action is invoked at most once, and exactly once in a
\* command that went past it; no poll tick comes before it; when invoking
\* it fails the command ends nonzero at once, with that single invocation
\* and without a poll listing, a pull or a remote delete
C24_TriggerOnce ==
    /\ nTrigger <= 1
    /\ spc \in BeforeTrigger => nTrigger = 0
    /\ (spc \notin BeforeTrigger /\ spc # "done") => nTrigger = 1
    /\ sexit \in {"ok", "timeout", "pullFailed", "triggerFailed"} => nTrigger = 1
    /\ ticks > 0 => (nTrigger = 1 /\ sexit # "triggerFailed")
    /\ sexit = "triggerFailed" => (ticks = 0 /\ nPull = 0 /\ nDelete = 0)

\* the capture action could not be invoked while a finished screenshot lay
\* in the directory: the command ended without looking for it
C24_Witness ==
    /\ sexit = "triggerFailed"
    /\ nTrigger = 1
    /\ files # <<>>
    /\ files[1].jpg /\ files[1].written = Len(FullImage)
    /\ ticks = 0

\* what the command does after a verification and after the loop
C25_Step ==
    /\ (spc = "verify" /\ spc' \notin {"verify", "afterLoop"}) =>
            /\ spc' = "poll"
            /\ attempt' = attempt + 1
            /\ sexit' = "none"
            /\ filename' = 0
    /\ (spc = "afterLoop" /\ spc' # "afterLoop") => spc' = "pull"
    /\ (spc = "pull" /\ spc' # "pull") =>
            (nPull' = nPull + 1 /\ pulled' \in {0, filename})

\* after a failed verification the loop is at its next iteration, which
\* lists again while fewer than 20 ticks are done; a file is verified at
\* the last tick done, and it is the file the pull is issued for
C25_State ==
    /\ (failedOnce /\ spc = "poll" /\ attempt < maxAttempts) =>
            (sexit = "none" /\ ENABLED PollList /\ ~ENABLED CheckFilename)
    /\ spc \in {"afterLoop", "pull", "delete"} =>
            (filename # 0 /\ verifiedAt = {ticks})
    /\ pulled # 0 => (pulled = filename /\ verifiedAt = {ticks})

\* C25: a new file that fails the end-marker check does not end the
\* attempt: the loop goes on to its next tick (the 20th at most), and when
\* at a later tick the newest new file verifies, the loop stops and that
\* file is the one pulled
C25_FailedVerificationNotFinal == [](C25_State) /\ [][C25_Step]_vars

\* a verification failed, a later tick verified, and that file was pulled
C25_Witness ==
    /\ failedOnce
    /\ ticks >= 2
    /\ verifiedAt = {ticks}
    /\ pulled = filename
    /\ pulled # 0

\* the steps recorded under this name
StepsNamed(name) ==
    LET Is(e) == e.step = name
    IN  SelectSeq(steps, Is)

\* the four checks, in the order the claim gives, each with a report that
\* meets the precondition
C26_ChecksPassed ==
    /\ Len(steps) >= 4
    /\ steps[1] = [step |-> "path", saw |-> "found"]
    /\ steps[2] = [step |-> "devices", saw |-> "attached"]
    /\ steps[3] = [step |-> "usb", saw |-> "listed"]
    /\ steps[4].step = "awake"
    /\ steps[4].saw # "mWakefulness=Asleep"

\* reports that leave a precondition unmet
C26_Unmet ==
    {"missing", "none", "listing failed", "Permission denied", "ls failed",
     "mWakefulness=Asleep"}

\* C26: the pre-trigger listing and the capture action come only after the
\* four checks passed in the order binary, device, storage, display; a
\* check that finds its precondition unmet is the command's last step: it
\* exits nonzero with neither listing nor trigger
C26_PreconditionsFirst ==
    /\ (StepsNamed("list") # <<>> \/ StepsNamed("trigger") # <<>> \/ nTrigger > 0) =>
            C26_ChecksPassed
    /\ \A i \in DOMAIN steps :
            steps[i].saw \in C26_Unmet =>
                /\ i = Len(steps)
                /\ spc = "done"
                /\ sexit \in {"noAdb", "noDevice", "usbUnauthorized", "asleep"}
                /\ nTrigger = 0

\* the first three checks passed, the display was reported asleep, and the
\* command ended without listing or trigger
C26_Witness ==
    /\ Len(steps) = 4
    /\ steps[3].saw = "listed"
    /\ steps[4].saw = "mWakefulness=Asleep"
    /\ sexit = "asleep"
    /\ nTrigger = 0

\* C27: a remote delete is issued only after the pull of the same verified
\* file succeeded; a failed pull ends the command nonzero with no delete,
\* and the step that fails leaves the device's directory as it was
C27_State ==
    /\ (nDelete > 0 \/ StepsNamed("rm") # <<>>) =>
            /\ StepsNamed("pull") = <<[step |-> "pull", saw |-> "saved"]>>
            /\ verifiedAt = {ticks}
            /\ pulled = filename
            /\ deleted = pulled
            /\ nDelete = 1
    /\ StepsNamed("pull") = <<[step |-> "pull", saw |-> "failed"]>> =>
            /\ spc = "done"
            /\ sexit = "pullFailed"
            /\ nDelete = 0
            /\ StepsNamed("rm") = <<>>
            /\ pulled = 0

C27_Step ==
    (sexit # "pullFailed" /\ sexit' = "pullFailed") => files' = files

C27_DeleteAfterPullOnly == [](C27_State) /\ [][C27_Step]_vars

\* the pull of a verified file failed and the command ended
C27_Witness ==
    /\ sexit = "pullFailed"
    /\ verifiedAt = {ticks}
    /\ nPull = 1
    /\ nDelete = 0

\* the delete was issued after the pull of the same file
C27_WitnessDeleted ==
    /\ nDelete = 1
    /\ pulled # 0
    /\ deleted = pulled

\* C28: when the remote `rm` fails after a successful pull, the command
\* still ends with success and the pulled local file stays
C28_CleanupFailureNotFatal ==
    \A i \in DOMAIN steps :
        steps[i] = [step |-> "rm", saw |-> "failed"] =>
            /\ i = Len(steps)
            /\ steps[i - 1] = [step |-> "pull", saw |-> "saved"]
            /\ spc = "done"
            /\ sexit = "ok"
            /\ pulled # 0
            /\ pulled = deleted

\* the `rm` failed on a file that is still on the device, after its pull
C28_Witness ==
    /\ steps # <<>>
    /\ steps[Len(steps)] = [step |-> "rm", saw |-> "failed"]
    /\ Present(deleted)
    /\ pulled = deleted
    /\ sexit = "ok"

\* the calls of this kind that the `open` command made
TCalls(ops) ==
    LET Is(e) == e.op \in ops
    IN  SelectSeq(tcalls, Is)

PeerOps == {"tabs", "reload", "navigate"}

\* what the running check of this invocation answered
C29_NotRunning == TCalls({"isRunning"}) = <<T("isRunning", 0, "false")>>

\* C29: a cold launch is issued exactly when the running check found no
\* browser or neither the reload nor the navigate succeeded; it is issued at
\* most once, as the last call and never after a successful reload or
\* navigate; a command that found no browser issues no peer-tool command
C29_ColdLaunch ==
    /\ Len(TCalls({"launch"})) <= 1
    /\ TCalls({"launch"}) # <<>> =>
            /\ tcalls[Len(tcalls)].op = "launch"
            /\ navigated # "true"
            /\ texit = "ok"
    /\ texit = "ok" =>
            (TCalls({"launch"}) # <<>> <=> (C29_NotRunning \/ navigated # "true"))
    /\ navigated = "true" =>
            /\ tcalls[Len(tcalls)].op \in {"reload", "navigate"}
            /\ texit = "ok"
    /\ C29_NotRunning => TCalls(PeerOps) = <<>>

\* the browser was found running, the reload failed, the navigation of the
\* blank tab failed, and the command launched
C29_Witness ==
    /\ texit = "ok"
    /\ Len(TCalls({"isRunning", "tabs", "reload", "navigate", "launch"})) = 5
    /\ tcalls[Len(tcalls)].op = "launch"

\* no browser was found: the launch is the only call after the check
C29_WitnessNotRunning ==
    /\ texit = "ok"
    /\ C29_NotRunning
    /\ TCalls({"launch"}) # <<>>
    /\ TCalls(PeerOps) = <<>>

\* the step in which the socket resolution returns
C30_Returns == opc \in {"ps", "unix"} /\ opc' \notin {"ps", "unix"}

\* the process listing yielded a pid, the socket table was read, and it
\* holds a socket named chrome_devtools_remote_<pid>
C30_Found ==
    /\ opc = "unix"
    /\ cdpPid > 0
    /\ ocalls'[Len(ocalls')].op = "unix"
    /\ cdpPid \in unixSockets

\* C30: the resolution returns (chrome_devtools_remote_<pid>, 9222) exactly
\* when the process listing yields a pid and the unix-socket table contains
\* a socket named chrome_devtools_remote_<pid>, and (chrome_devtools_remote,
\* 9223) in every other case
C30_SocketResolution ==
    [][C30_Returns =>
          IF C30_Found
          THEN cdpSocket' = cdpPid /\ cdpPort' = PidCdpPort
          ELSE cdpSocket' = GenericSocket /\ cdpPort' = GenericCdpPort]_vars

\* the second half of C30 alone: the PID-scoped name goes with 9222 and the
\* generic name with 9223
C30_Pairing ==
    [][C30_Returns =>
          /\ cdpSocket' \in {GenericSocket, cdpPid'}
          /\ cdpPort' = IF cdpSocket' = GenericSocket THEN GenericCdpPort
                        ELSE PidCdpPort]_vars

-----------------------------------------------------------------------------
(* Properties of the stay-awake start, restoration and idle timer *)

\* the step that spawns parent p's watchdog
SpawnStep(p) == wpc[p] = "none" /\ wpc'[p] = "polling"

\* a step of parent p's start that changes a device setting
SettingStep(p) ==
    /\ ppc[p] \in {"writePid", "spawn", "wakeProx", "setLong"}
    /\ ppc'[p] # ppc[p]
    /\ (timeout' # timeout \/ prox' # prox)

\* C31: the watchdog is spawned only after the device settings have been
\* mutated: at the spawn the device's timeout is already the long one
C31_SettingsBeforeSpawn ==
    [][\A p \in Pids : SpawnStep(p) => timeout = longTimeout]_vars

\* C31 (amended): the parent records its PID, then spawns the watchdog, and
\* only then applies the disable-sleep broadcast and the long timeout; no
\* step of a start changes a device setting before the spawn was attempted,
\* and the spawn itself changes none
C31_SpawnBeforeSettings ==
    [][\A p \in Pids :
          /\ (pidFile' = p /\ pidFile # p) =>
                (ppc[p] = "writePid" /\ ppc'[p] = "spawn" /\ wpc[p] = "none")
          /\ SpawnStep(p) =>
                /\ ppc[p] = "spawn"
                /\ ppc'[p] = "wakeProx"
                /\ UNCHANGED <<pidFile, timeout, prox>>
          /\ SettingStep(p) => ppc[p] \in {"wakeProx", "setLong"}
          /\ (ppc[p] = "wakeProx" /\ ppc'[p] # ppc[p]) =>
                (ppc'[p] \in {"setLong", "killed"} /\ timeout' = timeout)
          /\ (ppc[p] = "setLong" /\ ppc'[p] = "running") =>
                timeout' = longTimeout]_vars

\* the PID is recorded and the watchdog polls while the device still has
\* its own timeout and proximity automation
C31_Witness ==
    \E p \in Pids :
        /\ ppc[p] = "wakeProx"
        /\ wpc[p] = "polling"
        /\ pidFile = p
        /\ timeout = DeviceTimeout
        /\ prox = "auto"

\* parent p has ended and its watchdog no longer polls: no process of the
\* session is left
SessionOver(p) ==
    /\ ppc[p] \in {"exited", "killed"}
    /\ wpc[p] # "polling"

\* parent p had applied the long timeout and then ended: its cleanup began,
\* or its watchdog found it dead
EndedAfterStart(p) ==
    /\ SessionOver(p)
    /\ (bodyRuns[p] > 0 \/ wpc[p] = "exited")

\* C32: in a session whose watchdog was spawned and whose restoring bridge
\* commands succeed, once the parent has ended after applying the long
\* timeout and no process of the session is left, the device's timeout is
\* the originalTimeout read at start and the PID file is absent
C32_RestoredAfterParentEnds ==
    EndedAfterStart(1) => (timeout = origT[1] /\ pidFile = 0)

\* the same with the kill that arrives while cleanup() runs left out
C32_RestoredUnlessCleanupKilled ==
    (EndedAfterStart(1) /\ ~(ppc[1] = "killed" /\ bodyRuns[1] > 0)) =>
        (timeout = origT[1] /\ pidFile = 0)

\* the parent was killed while running and the watchdog restored the device
C32_WatchdogRestored ==
    /\ ppc[1] = "killed"
    /\ bodyRuns[1] = 0
    /\ wdid[1] = {"timeout", "prox", "unlink"}
    /\ timeout = DeviceTimeout
    /\ pidFile = 0

\* at most one idle timer is armed, and none once cleanup has begun or the
\* process has ended
C33_State ==
    \A p \in Pids :
        /\ armed[p] <= 1
        /\ cleanupInProgress[p] => armed[p] = 0
        /\ ppc[p] = "running" => armed[p] = 1
        /\ ppc[p] # "running" => armed[p] = 0

\* a SIGUSR1 step: a call of resetIdleTimer after the first
C33_ActivityStep(p) == resets[p] >= 1 /\ resets'[p] = resets[p] + 1

\* the step in which cleanup begins, by a signal or by the timer firing
C33_CleanupStep(p) == ~cleanupInProgress[p] /\ cleanupInProgress'[p]

C33_Step ==
    \A p \in Pids :
        /\ C33_ActivityStep(p) =>
              /\ armed[p] = 1
              /\ armed'[p] = 1
              /\ ppc[p] = "running"
              /\ UNCHANGED <<ppc, cleanupInProgress, bodyRuns, pidFile, timeout,
                             prox, wpc>>
        /\ C33_CleanupStep(p) =>
              /\ ppc[p] = "running"
              /\ ppc'[p] = "cleanup"
              /\ bodyRuns'[p] = bodyRuns[p] + 1
              /\ armed'[p] = 0
              /\ wpc'[p] = "none"
              /\ pidFile' = 0
        /\ (ppc[p] = "cleanup" /\ ppc'[p] # "cleanup") =>
              (ppc'[p] \in {"exited", "killed"} /\ armed'[p] = 0)

\* C33: at any time at most one idle timer is armed; each SIGUSR1 cancels
\* the armed timer and arms a fresh one; the timer's firing takes the same
\* guarded cleanup-and-exit path as an interrupt signal, and once cleanup
\* has begun no timer remains armed
C33_IdleTimer == [](C33_State) /\ [][C33_Step]_vars

\* two activity signals have reset the timer and one timer is armed
C33_Witness ==
    /\ ppc[1] = "running"
    /\ resets[1] = 3
    /\ armed[1] = 1

\* cleanup began after an activity signal and no timer is armed
C33_WitnessCleanup ==
    /\ ppc[1] = "cleanup"
    /\ resets[1] >= 2
    /\ armed[1] = 0

(* Properties of the device check, the forwarding setup and the outcome of
   `open` *)

DCalls(op) ==
    LET Is(e) == e.op = op
    IN  SelectSeq(dcalls, Is)

\* the check gave up: a listing failed and no retry follows it
C34_GaveUp ==
    \/ \E i \in 1..Len(dcalls) : dcalls[i] = D("restart", 0, "failed")
    \/ \E i \in 1..Len(dcalls) :
            /\ dcalls[i].op = "devices"
            /\ dcalls[i].result # "listed"
            /\ dcalls[i].count = 1 \/ dcalls[i].result = "fault"

\* C34: checkADBDevices restarts the server only right after a `devices`
\* listing that failed with a server fault in the call with retryCount 0;
\* one invocation restarts the server at most once and lists the devices at
\* most twice; when the retry fails, or the restart fails, the process
\* exits with a nonzero code
C34_RecoversAtMostOnce ==
    /\ Len(DCalls("restart")) <= 1
    /\ Len(DCalls("devices")) <= 2
    /\ \A i \in 1..Len(dcalls) :
            dcalls[i].op = "restart" =>
                /\ i > 1
                /\ dcalls[i - 1] = D("devices", 0, "serverFault")
                /\ \A j \in 1..(i - 2) : dcalls[j].op # "devices"
    /\ C34_GaveUp => (tpc = "done" /\ texit = "devicesFailed")

\* the retry after a successful restart fails as well
C34_Witness ==
    /\ Len(dcalls) = 3
    /\ dcalls[2] = D("restart", 0, "restarted")
    /\ dcalls[3] = D("devices", 1, "serverFault")
    /\ texit = "devicesFailed"

\* the retry after a successful restart finds a device
C34_WitnessRecovered ==
    /\ DCalls("restart") = <<D("restart", 0, "restarted")>>
    /\ ndev >= 1
    /\ tpc = "forward"

\* no forwarding setup is under way
QuietSetup == opc \in {"idle", "done"}

\* forwarding setups with an environment that acts only between them
NextSetup ==
    \/ \E p \in Ports \cup {NoPort} : StartEnsure(p)
    \/ GetBrowserPID
    \/ DetectSocket
    \/ ReverseList
    \/ ReverseCreate
    \/ ForwardList
    \/ Probe
    \/ ForwardCreate
    \/ QuietSetup /\ \E pid \in BrowserPids : BrowserStart(pid)
    \/ QuietSetup /\ BrowserSettle
    \/ QuietSetup /\ BrowserStop
    \/ QuietSetup /\ \E p \in Ports : ReverseAdd(p)
    \/ QuietSetup /\ ReverseRemoveAll
    \/ QuietSetup /\ ForwardRemoveAll
    \/ QuietSetup /\ \E port \in CdpPorts : ForeignStart(port)

SpecSetup == InitFwd /\ [][NextSetup]_vars

\* the step in which the setup returns to its caller
C35_Returns == oexit = "none" /\ oexit' = "ok"

C35_ReverseRule == oport # NoPort => Binds(reverseRules, oport)

C35_ForwardRule == <<cdpPort, cdpSocket>> \in forwardRules

\* the reverse half of C35
C35_ReversePost == [][C35_Returns => C35_ReverseRule']_vars

\* the forward half of C35
C35_ForwardPost == [][C35_Returns => C35_ForwardRule']_vars

\* C35: when ensurePortForwarding(P) returns without exiting, a rule of the
\* reverse table binds tcp:P and the forward table maps tcp:<cdpPort> to
\* localabstract:<cdpSocket> for the pair resolved in the call, whatever the
\* two tables held before; when ensureCDPForwarding returns, the forward
\* table holds that rule
C35_Postcondition ==
    [][C35_Returns => (C35_ReverseRule' /\ C35_ForwardRule')]_vars

(* Properties of the files the capture engine takes *)

\* the remote file existed before the capture was triggered
C36_Older(name) == name # 0 /\ name < firstNew

\* C36: screenshotCommand neither pulls nor deletes a remote file that was
\* in the screenshot directory before the capture was triggered, whatever
\* the pre-trigger listing returned and whichever files disappear while the
\* command polls
C36_OnlyNewFiles == ~C36_Older(pulled) /\ ~C36_Older(deleted)

\* C36 for the commands whose pre-trigger listing returned a file
C36_OnlyNewFilesAfterSnapshot ==
    existingScreenshot # 0 => C36_OnlyNewFiles

(* Properties of the peer tool's address and of the outcome of `open` *)

\* `http://localhost:${port}` rendered from a number
CdpUrlOf(port) == "http://localhost:" \o ToString(port)

\* C37: every peer-tool command of one `open` invocation is addressed to
\* http://localhost:<port> with the host port for which the invocation
\* ensured the forward rule, whichever socket the browser listens on when
\* the command is issued
C37_PeerOnForwardedPort ==
    \A i \in DOMAIN tcalls :
        tcalls[i].op \in PeerOps => tcalls[i].cdp = CdpUrlOf(cdpPort)

\* the command reached `Done!` and the process ends with status 0
C40_Done == tpc = "done" /\ texit = "ok"

\* the target url reached the browser: tryNavigateExistingTab returned true
\* (a reload or a navigate with code 0) or launchBrowser returned true
C40_Delivered == navigated = "true" \/ launched = "true"

\* C40: `open` reaches `Done!` with exit status 0 only when the target url
\* was delivered by a successful reload, a successful blank-tab navigate or
\* a successful cold launch; a failed cold launch is not reported as
\* success
C40_DoneOnlyIfDelivered == C40_Done => C40_Delivered

\* C40 without its last clause: the command ends successfully only after it
\* delivered the url or issued the cold launch
C40_DoneOnlyIfAttempted == C40_Done => (C40_Delivered \/ launched = "false")

(* Properties of concurrent stay-awake sessions *)

\* the step in which p's watchdog unlinks the PID file
C38_WatchdogUnlinks(p) ==
    /\ wpc[p] = "polling"
    /\ wpc'[p] = "exited"
    /\ pidFile # 0
    /\ pidFile' = 0

\* C38: a watchdog deletes the PID file only while the file records the
\* pid of the watchdog's own parent
C38_OwnPidFileOnly ==
    [][\A p \in Pids : C38_WatchdogUnlinks(p) => pidFile = p]_vars

\* the example of C38: no watchdog deletes the PID file of another session
\* that is alive
C38_NotALiveSessions ==
    [][\A p \in Pids :
          C38_WatchdogUnlinks(p) => ~(pidFile # p /\ ProcessExists(pidFile))]_vars

\* concurrent sessions whose watchdogs are spawned and whose restoring
\* bridge commands succeed
NextSessions ==
    \E p \in Pids :
        \/ AwakeStart(p)
        \/ Prereq(p)
        \/ PidCheck(p)
        \/ GetTimeout(p)
        \/ WritePid(p)
        \/ SpawnWith(p, {TRUE})
        \/ WakeProx(p)
        \/ SetLong(p)
        \/ \E sig \in {"SIGINT", "SIGTERM", "SIGHUP"} : Signal(p, sig)
        \/ IdleFire(p)
        \/ CleanupRestoreWith(p, {"both"})
        \/ Kill(p)
        \/ WatchPoll(p)
        \/ WatchRestoreWith(p, {"both"})

SpecSessions == InitAwake /\ [][NextSessions]_vars

\* a session was started, and every session and every watchdog has ended
C39_AllEnded ==
    /\ \E p \in Pids : ppc[p] # "none"
    /\ \A p \in Pids : ~Alive(p) /\ wpc[p] # "polling"

\* no session ended because a bridge command failed
C39_CommandsSucceeded ==
    \A p \in Pids : pexit[p] \notin {"noDevice", "getFailed", "setFailed"}

\* the second half of C39: no session records the 24-hour value as its
\* originalTimeout
C39_NoForeignOriginal == \A p \in Pids : origT[p] # longTimeout

\* the first half of C39: once every session and every watchdog has ended,
\* the device's screen_off_timeout is the one from before the first session
C39_TimeoutRestored ==
    (C39_AllEnded /\ C39_CommandsSucceeded) => timeout = DeviceTimeout

\* C39: under any interleaving of sessions whose bridge commands succeed,
\* once every session and every watchdog has ended the screen_off_timeout
\* has its value from before the first session, and no session records the
\* 24-hour value another session wrote as its originalTimeout
C39_OriginalTimeoutKept == C39_TimeoutRestored /\ C39_NoForeignOriginal

\* C39's first half for the runs in which no session recorded the 24-hour
\* value and no parent was killed during its cleanup
C39_TimeoutRestoredOtherwise ==
    (/\ C39_AllEnded
     /\ C39_CommandsSucceeded
     /\ C39_NoForeignOriginal
     /\ \A p \in Pids : ~(ppc[p] = "killed" /\ cleanupInProgress[p]))
        => timeout = DeviceTimeout

====
